---- MODULE Spec2Model ----
(***************************************************************************)
(* Model of the multi-field Poseidon hasher (src/src/hasher.rs), its       *)
(* packing buffer (src/src/primitive.rs) and the primitive tags            *)
(* (src/src/tags.rs), instantiated for the Pallas curve as PallasHasher    *)
(* does (src/src/types.rs).                                                *)
(*                                                                         *)
(* A field element is the little-endian byte sequence of its canonical     *)
(* representative, without trailing zero bytes (zero is << >>).  The       *)
(* arkworks sponge the hasher feeds is kept as the sequence of elements    *)
(* absorbed so far; squeezing it returns a value that stands for the       *)
(* permutation output on exactly that sequence.                            *)
(***************************************************************************)
EXTENDS Integers, Sequences, FiniteSets, TLC

(***************************************************************************)
(* Natural numbers as little-endian byte sequences.                        *)
(***************************************************************************)
RECURSIVE nat_norm(_)
nat_norm(s) ==
    IF s = <<>> THEN <<>>
    ELSE IF s[Len(s)] = 0 THEN nat_norm(SubSeq(s, 1, Len(s) - 1))
    ELSE s

byte_at(s, i) == IF i <= Len(s) THEN s[i] ELSE 0

RECURSIVE nat_add_from(_, _, _, _)
nat_add_from(a, b, i, carry) ==
    IF i > Len(a) /\ i > Len(b)
    THEN IF carry = 0 THEN <<>> ELSE <<carry>>
    ELSE LET s == byte_at(a, i) + byte_at(b, i) + carry
         IN  <<s % 256>> \o nat_add_from(a, b, i + 1, s \div 256)

nat_add(a, b) == nat_add_from(a, b, 1, 0)

RECURSIVE nat_lt_from(_, _, _)
nat_lt_from(a, b, i) ==
    IF i = 0 THEN FALSE
    ELSE IF a[i] # b[i] THEN a[i] < b[i]
    ELSE nat_lt_from(a, b, i - 1)

\* a < b, for a and b without trailing zero bytes
nat_lt(a, b) ==
    IF Len(a) # Len(b) THEN Len(a) < Len(b) ELSE nat_lt_from(a, b, Len(a))

RECURSIVE nat_sub_from(_, _, _, _)
nat_sub_from(a, b, i, borrow) ==
    IF i > Len(a) THEN <<>>
    ELSE LET d == a[i] - byte_at(b, i) - borrow
         IN  <<d % 256>> \o nat_sub_from(a, b, i + 1, IF d < 0 THEN 1 ELSE 0)

\* a - b, for a >= b
nat_sub(a, b) == nat_norm(nat_sub_from(a, b, 1, 0))

(***************************************************************************)
(* The fields of the Pallas instantiation: F = ark_pallas::Fq (the base    *)
(* field) and S = ark_pallas::Fr (the scalar field), both of 255 bits.     *)
(***************************************************************************)
F_MODULUS ==
    <<1, 0, 0, 0, 237, 48, 45, 153, 27, 249, 76, 9, 252, 152, 70, 34,
      0, 0, 0, 0, 0, 0, 0, 0, 0, 0, 0, 0, 0, 0, 0, 64>>

S_MODULUS ==
    <<1, 0, 0, 0, 33, 235, 70, 140, 221, 168, 148, 9, 252, 152, 70, 34,
      0, 0, 0, 0, 0, 0, 0, 0, 0, 0, 0, 0, 0, 0, 0, 64>>

F_MODULUS_BIT_SIZE == 255

S_MODULUS_BIT_SIZE == 255

f_zero == <<>>

\* F addition: e + c
f_add(a, b) ==
    LET s == nat_add(a, b)
    IN  IF nat_lt(s, F_MODULUS) THEN s ELSE nat_sub(s, F_MODULUS)

\* F_MODULUS * 2^k for k = 0 .. 8 (element k + 1)
F_MODULUS_SHL ==
    <<
      <<1, 0, 0, 0, 237, 48, 45, 153, 27, 249, 76, 9, 252, 152, 70, 34, 0, 0, 0, 0, 0, 0, 0, 0, 0, 0, 0, 0, 0, 0, 0, 64>>,
      <<2, 0, 0, 0, 218, 97, 90, 50, 55, 242, 153, 18, 248, 49, 141, 68, 0, 0, 0, 0, 0, 0, 0, 0, 0, 0, 0, 0, 0, 0, 0, 128>>,
      <<4, 0, 0, 0, 180, 195, 180, 100, 110, 228, 51, 37, 240, 99, 26, 137, 0, 0, 0, 0, 0, 0, 0, 0, 0, 0, 0, 0, 0, 0, 0, 0, 1>>,
      <<8, 0, 0, 0, 104, 135, 105, 201, 220, 200, 103, 74, 224, 199, 52, 18, 1, 0, 0, 0, 0, 0, 0, 0, 0, 0, 0, 0, 0, 0, 0, 0, 2>>,
      <<16, 0, 0, 0, 208, 14, 211, 146, 185, 145, 207, 148, 192, 143, 105, 36, 2, 0, 0, 0, 0, 0, 0, 0, 0, 0, 0, 0, 0, 0, 0, 0, 4>>,
      <<32, 0, 0, 0, 160, 29, 166, 37, 115, 35, 159, 41, 129, 31, 211, 72, 4, 0, 0, 0, 0, 0, 0, 0, 0, 0, 0, 0, 0, 0, 0, 0, 8>>,
      <<64, 0, 0, 0, 64, 59, 76, 75, 230, 70, 62, 83, 2, 63, 166, 145, 8, 0, 0, 0, 0, 0, 0, 0, 0, 0, 0, 0, 0, 0, 0, 0, 16>>,
      <<128, 0, 0, 0, 128, 118, 152, 150, 204, 141, 124, 166, 4, 126, 76, 35, 17, 0, 0, 0, 0, 0, 0, 0, 0, 0, 0, 0, 0, 0, 0, 0, 32>>,
      <<0, 1, 0, 0, 0, 237, 48, 45, 153, 27, 249, 76, 9, 252, 152, 70, 34, 0, 0, 0, 0, 0, 0, 0, 0, 0, 0, 0, 0, 0, 0, 0, 64>>
    >>

\* v < 256 * F_MODULUS reduced below F_MODULUS: one conditional subtraction
\* of F_MODULUS * 2^k for k = 8 .. 0
RECURSIVE f_reduce(_, _)
f_reduce(v, k) ==
    LET m == F_MODULUS_SHL[k + 1]
        w == IF nat_lt(v, m) THEN v ELSE nat_sub(v, m)
    IN  IF k = 0 THEN w ELSE f_reduce(w, k - 1)

\* Horner evaluation from byte i down to the first, reducing as it goes
RECURSIVE f_from_bytes_from(_, _, _)
f_from_bytes_from(bytes, i, acc) ==
    IF i = 0 THEN acc
    ELSE LET v == nat_norm(<<bytes[i]>> \o acc)
         IN  IF nat_lt(v, F_MODULUS)
             THEN f_from_bytes_from(bytes, i - 1, v)
             ELSE f_from_bytes_from(bytes, i - 1, f_reduce(v, 8))

\* F::from_le_bytes_mod_order: the little-endian integer modulo the order.
\* The 31 most significant bytes are below the 255-bit order as they stand.
from_le_bytes_mod_order(bytes) ==
    LET n == Len(bytes)
    IN  IF n <= 31 THEN nat_norm(bytes)
        ELSE f_from_bytes_from(bytes, n - 31, nat_norm(SubSeq(bytes, n - 30, n)))

\* F::from(byte as u64)
f_from_u64(n) == nat_norm(<<n % 256, (n \div 256) % 256>>)

(***************************************************************************)
(* Primitive tags (src/src/tags.rs).                                       *)
(***************************************************************************)
TAG_BOOL == 16
TAG_U8 == 17
TAG_U16 == 18
TAG_U32 == 19
TAG_U64 == 20
TAG_U128 == 21
TAG_USIZE == 22
TAG_I8 == 23
TAG_I16 == 24
TAG_I32 == 25
TAG_I64 == 26
TAG_I128 == 27
TAG_ISIZE == 28
TAG_STRING == 32
TAG_BYTES == 33

(***************************************************************************)
(* RustInput (src/src/primitive.rs).  A value is a record                  *)
(*   [kind |-> the enum variant, n |-> its integer (1/0 for a bool),       *)
(*    s |-> the bytes of its string or byte vector].                       *)
(***************************************************************************)
RustBool(b) == [kind |-> "Bool", n |-> IF b THEN 1 ELSE 0, s |-> <<>>]
RustInt(kind, n) == [kind |-> kind, n |-> n, s |-> <<>>]
RustText(kind, bytes) == [kind |-> kind, n |-> 0, s |-> bytes]

\* size in bytes of the integer variants; usize and isize on a 64-bit target
int_width(kind) ==
    CASE kind \in {"U8", "I8"} -> 1
      [] kind \in {"U16", "I16"} -> 2
      [] kind \in {"U32", "I32"} -> 4
      [] kind \in {"U64", "I64", "Usize", "Isize"} -> 8
      [] kind \in {"U128", "I128"} -> 16

\* int_tag with the signed variants given the tags of the unsigned ones
int_tag_unsigned(kind) ==
    CASE kind \in {"U8", "I8"} -> TAG_U8 [] kind \in {"U16", "I16"} -> TAG_U16
      [] kind \in {"U32", "I32"} -> TAG_U32 [] kind \in {"U64", "I64"} -> TAG_U64
      [] kind \in {"U128", "I128"} -> TAG_U128 [] kind \in {"Usize", "Isize"} -> TAG_USIZE

int_tag(kind) ==
    CASE kind = "U8" -> TAG_U8 [] kind = "U16" -> TAG_U16
      [] kind = "U32" -> TAG_U32 [] kind = "U64" -> TAG_U64
      [] kind = "U128" -> TAG_U128 [] kind = "Usize" -> TAG_USIZE
      [] kind = "I8" -> TAG_I8 [] kind = "I16" -> TAG_I16
      [] kind = "I32" -> TAG_I32 [] kind = "I64" -> TAG_I64
      [] kind = "I128" -> TAG_I128 [] kind = "Isize" -> TAG_ISIZE

\* n.to_le_bytes(): two's complement, little-endian, width bytes
RECURSIVE to_le_bytes(_, _)
to_le_bytes(n, width) ==
    IF width = 0 THEN <<>>
    ELSE <<n % 256>> \o to_le_bytes(n \div 256, width - 1)

(***************************************************************************)
(* PackingConfig and PackingBuffer (src/src/primitive.rs).  An Option is   *)
(* a sequence of length 0 (None) or 1 (Some).                              *)
(***************************************************************************)
PackingConfig(mode, max_bytes, padding) ==
    [mode |-> mode, max_bytes_per_field |-> max_bytes, padding |-> padding]

PackingConfig_default == PackingConfig("ByteEfficient", <<>>, "LengthPrefix")

SAFETY_MARGIN_BITS == 8

max2(a, b) == IF a >= b THEN a ELSE b

\* calculate_max_bytes::<F>() for a field F of field_bits bits
calculate_max_bytes_of(field_bits) ==
    LET safe_bits == IF field_bits >= SAFETY_MARGIN_BITS
                     THEN field_bits - SAFETY_MARGIN_BITS ELSE 0
    IN  max2(safe_bits \div 8, 1)

calculate_max_bytes == calculate_max_bytes_of(F_MODULUS_BIT_SIZE)

PackingBuffer_new(config) ==
    [bytes |-> <<>>,
     config |-> config,
     max_bytes_per_field |->
         IF config.max_bytes_per_field = <<>> THEN calculate_max_bytes
         ELSE config.max_bytes_per_field[1]]

push_bytes(buffer, bytes) == [buffer EXCEPT !.bytes = @ \o bytes]

push_tag(buffer, tag) == [buffer EXCEPT !.bytes = Append(@, tag)]

push_bool(buffer, n) == [buffer EXCEPT !.bytes = Append(@, IF n = 1 THEN 1 ELSE 0)]

\* the bytes push_varint appends: 7 bits per byte, low group first, the top
\* bit set on every byte but the last
RECURSIVE varint_bytes(_)
varint_bytes(value) ==
    IF value >= 128
    THEN <<(value % 128) + 128>> \o varint_bytes(value \div 128)
    ELSE <<value>>

push_varint(buffer, value) == [buffer EXCEPT !.bytes = @ \o varint_bytes(value)]

push_string(buffer, s) == push_bytes(push_varint(buffer, Len(s)), s)

serialize_rust_input(input, buffer) ==
    CASE input.kind = "Bool" -> push_bool(push_tag(buffer, TAG_BOOL), input.n)
      [] input.kind \in {"String", "Str"} ->
            push_string(push_tag(buffer, TAG_STRING), input.s)
      [] input.kind \in {"Bytes", "ByteSlice"} ->
            push_bytes(push_varint(push_tag(buffer, TAG_BYTES), Len(input.s)), input.s)
      [] OTHER ->
            push_bytes(push_tag(buffer, int_tag(input.kind)),
                       to_le_bytes(input.n, int_width(input.kind)))

min2(a, b) == IF a <= b THEN a ELSE b

\* the loop condition asking for more than a whole chunk
extract_continues_strict(buffer) ==
    IF buffer.config.mode = "ByteEfficient"
    THEN Len(buffer.bytes) > buffer.max_bytes_per_field
    ELSE buffer.bytes # <<>>

\* The condition of the while loop of extract_field_elements, in either mode.
extract_continues(buffer) ==
    IF buffer.config.mode = "ByteEfficient"
    THEN Len(buffer.bytes) >= buffer.max_bytes_per_field
    ELSE buffer.bytes # <<>>

\* an iteration pushing each popped byte to the front of the chunk
extract_iteration_reversed(buffer, field_elements) ==
    IF buffer.config.mode = "ByteEfficient"
    THEN LET n == min2(buffer.max_bytes_per_field, Len(buffer.bytes))
             chunk == [i \in 1..n |-> buffer.bytes[n + 1 - i]]
         IN  [buffer |-> [buffer EXCEPT !.bytes = SubSeq(@, n + 1, Len(@))],
              field_elements |->
                  IF chunk # <<>>
                  THEN Append(field_elements, from_le_bytes_mod_order(chunk))
                  ELSE field_elements]
    ELSE [buffer |-> [buffer EXCEPT !.bytes = Tail(@)],
          field_elements |-> Append(field_elements, f_from_u64(Head(buffer.bytes)))]

\* One iteration of that loop: ByteEfficient pops max_bytes_per_field bytes
\* and converts them if there are any, CircuitFriendly pops one byte.
extract_iteration(buffer, field_elements) ==
    IF buffer.config.mode = "ByteEfficient"
    THEN LET n == min2(buffer.max_bytes_per_field, Len(buffer.bytes))
             chunk == SubSeq(buffer.bytes, 1, n)
         IN  [buffer |-> [buffer EXCEPT !.bytes = SubSeq(@, n + 1, Len(@))],
              field_elements |->
                  IF chunk # <<>>
                  THEN Append(field_elements, from_le_bytes_mod_order(chunk))
                  ELSE field_elements]
    ELSE [buffer |-> [buffer EXCEPT !.bytes = Tail(@)],
          field_elements |-> Append(field_elements, f_from_u64(Head(buffer.bytes)))]

\* The ByteEfficient loop of extract_field_elements run to its end: while a
\* whole chunk is buffered, pop max_bytes_per_field bytes and convert them.
RECURSIVE extract_byte_efficient(_, _)
extract_byte_efficient(buffer, field_elements) ==
    IF extract_continues(buffer)
    THEN LET r == extract_iteration(buffer, field_elements)
         IN  extract_byte_efficient(r.buffer, r.field_elements)
    ELSE [buffer |-> buffer, field_elements |-> field_elements]

\* the CircuitFriendly loop popping from the back of the buffer
one_per_byte_from_back(buffer) ==
    [buffer |-> [buffer EXCEPT !.bytes = <<>>],
     field_elements |-> [i \in 1..Len(buffer.bytes) |->
                            f_from_u64(buffer.bytes[Len(buffer.bytes) + 1 - i])]]

\* The CircuitFriendly loop: every byte becomes its own field element.
one_per_byte(buffer) ==
    [buffer |-> [buffer EXCEPT !.bytes = <<>>],
     field_elements |-> [i \in 1..Len(buffer.bytes) |-> f_from_u64(buffer.bytes[i])]]

extract_field_elements(buffer) ==
    IF buffer.config.mode = "ByteEfficient"
    THEN extract_byte_efficient(buffer, <<>>)
    ELSE one_per_byte(buffer)

\* Vec::resize(new_len, 0): truncates or pads with zeros
resize(v, new_len) ==
    [i \in 1..new_len |-> IF i <= Len(v) THEN v[i] ELSE 0]

\* padded_bytes of flush_remaining, the chunk it converts: the bytes drained
\* from a non-empty ByteEfficient buffer after the match on the padding
padded_bytes(buffer) ==
    LET remaining_bytes == buffer.bytes
    IN  IF buffer.config.padding = "Zero"
        THEN resize(remaining_bytes, buffer.max_bytes_per_field)
        ELSE LET actual_len == Len(remaining_bytes)
                 prefixed == <<actual_len % 256>> \o remaining_bytes
             IN  IF Len(prefixed) < buffer.max_bytes_per_field
                 THEN resize(prefixed, buffer.max_bytes_per_field)
                 ELSE prefixed

flush_remaining(buffer) ==
    IF buffer.bytes = <<>> THEN [buffer |-> buffer, field_elements |-> <<>>]
    ELSE IF buffer.config.mode = "ByteEfficient"
    THEN [buffer |-> [buffer EXCEPT !.bytes = <<>>],
          field_elements |-> <<from_le_bytes_mod_order(padded_bytes(buffer))>>]
    ELSE one_per_byte(buffer)

PackingBuffer_clear(buffer) == [buffer EXCEPT !.bytes = <<>>]

(***************************************************************************)
(* The arkworks Poseidon sponge behind ArkPoseidonSponge, by its duplex    *)
(* contract: absorbing appends to what has been absorbed, and the element  *)
(* squeezed is a function of exactly that sequence (here: the sequence).   *)
(***************************************************************************)
ArkPoseidonSponge_new == [absorbed |-> <<>>]

sponge_absorb(sponge, elems) == [sponge EXCEPT !.absorbed = @ \o elems]

squeeze_native_field_elements(sponge) == sponge.absorbed

(***************************************************************************)
(* Domain-in-Rate constants (src/src/hasher.rs).                           *)
(***************************************************************************)
MAX_RATE == 12

\* the ASCII bytes of the labels
LABEL_BASE == <<68, 73, 82, 124, 66, 65, 83, 69>>                         \* "DIR|BASE"
LABEL_SCALAR == <<68, 73, 82, 124, 83, 67, 65, 76, 65, 82>>               \* "DIR|SCALAR"
LABEL_CURVE_FIN == <<68, 73, 82, 124, 67, 85, 82, 86, 69, 95, 70, 73, 78>> \* "DIR|CURVE_FIN"
LABEL_CURVE_INF == <<68, 73, 82, 124, 67, 85, 82, 86, 69, 95, 73, 78, 70>> \* "DIR|CURVE_INF"
LABEL_PRIM == <<68, 73, 82, 124, 80, 82, 73, 77>>                         \* "DIR|PRIM"
LABEL_DOMAIN == <<68, 73, 82, 124, 68, 79, 77, 65, 73, 78, 124>>          \* "DIR|DOMAIN|"
PIPE == 124                                                               \* "|"

\* the decimal digits of i, as format!("{}", i) writes them
RECURSIVE decimal(_)
decimal(i) ==
    IF i < 10 THEN <<48 + i>> ELSE decimal(i \div 10) \o <<48 + (i % 10)>>

\* derive_lane_constants hashing the lane index alone, without the label
derive_lane_constants_unlabelled(label, rate) ==
    [k \in 1..MAX_RATE |->
        IF k - 1 < rate
        THEN from_le_bytes_mod_order(<<PIPE>> \o decimal(k - 1))
        ELSE f_zero]

\* lane i (from 0) of the array is element i + 1 of the sequence
derive_lane_constants(label, rate) ==
    [k \in 1..MAX_RATE |->
        IF k - 1 < rate
        THEN from_le_bytes_mod_order(label \o <<PIPE>> \o decimal(k - 1))
        ELSE f_zero]

derive_domain_tweak(domain, rate) ==
    [k \in 1..MAX_RATE |->
        IF k - 1 < rate
        THEN from_le_bytes_mod_order(
                 LABEL_DOMAIN \o domain \o <<PIPE>> \o to_le_bytes(k - 1, 8))
        ELSE f_zero]

build_dir_constants(rate) ==
    [base |-> derive_lane_constants(LABEL_BASE, rate),
     scalar |-> derive_lane_constants(LABEL_SCALAR, rate),
     curve_finite |-> derive_lane_constants(LABEL_CURVE_FIN, rate),
     curve_infinity |-> derive_lane_constants(LABEL_CURVE_INF, rate),
     primitive |-> derive_lane_constants(LABEL_PRIM, rate)]

DirClass == {"Base", "Scalar", "CurveFinite", "CurveInfinity", "Primitive"}

\* the match on DirClass that opens absorb_dir and the preview
class_vec(consts, class) ==
    CASE class = "Base" -> consts.base
      [] class = "Scalar" -> consts.scalar
      [] class = "CurveFinite" -> consts.curve_finite
      [] class = "CurveInfinity" -> consts.curve_infinity
      [] class = "Primitive" -> consts.primitive

(***************************************************************************)
(* MultiFieldHasher (src/src/hasher.rs).                                   *)
(***************************************************************************)
\* assert_scalar_fits_base_field accepting a scalar field one bit larger
assert_scalar_fits_one_more(s_bits, f_bits) == ~(s_bits > f_bits + 1)

\* assert_scalar_fits_base_field for a curve whose scalar field has s_bits
\* bits and base field f_bits: TRUE when it returns, FALSE when it panics
assert_scalar_fits_base_field(s_bits, f_bits) == ~(s_bits > f_bits)

scalar_fits_base_field == ~(S_MODULUS_BIT_SIZE > F_MODULUS_BIT_SIZE)

new_with_config(rate, packing_config) ==
    [sponge |-> ArkPoseidonSponge_new,
     base_sponge |-> ArkPoseidonSponge_new,
     primitive_buffer |-> PackingBuffer_new(packing_config),
     count |-> 0,
     rate |-> rate,
     lane_cursor |-> 0,
     dir_consts |-> build_dir_constants(rate),
     pending_domain |-> <<>>,
     pending_domain_at_block_start |-> FALSE,
     domain_lanes_remaining |-> 0]

new(rate) == new_with_config(rate, PackingConfig_default)

\* absorb_domain putting the new vector in the place of a pending one and
\* keeping that one's counter and flag
absorb_domain_keeping_counter(h, domain) ==
    [h EXCEPT !.pending_domain = <<derive_domain_tweak(domain, h.rate)>>,
              !.pending_domain_at_block_start =
                  IF h.pending_domain = <<>> THEN TRUE ELSE @,
              !.domain_lanes_remaining =
                  IF h.pending_domain = <<>> THEN h.rate ELSE @]

\* absorb_domain installing the tweak without its lane counter
absorb_domain_without_counter(h, domain) ==
    [h EXCEPT !.pending_domain = <<derive_domain_tweak(domain, h.rate)>>,
              !.pending_domain_at_block_start = TRUE]

absorb_domain(h, domain) ==
    [h EXCEPT !.pending_domain = <<derive_domain_tweak(domain, h.rate)>>,
              !.pending_domain_at_block_start = TRUE,
              !.domain_lanes_remaining = h.rate]

\* The loop of absorb_dir from element i on; self is the hasher, written as
\* it goes.
RECURSIVE absorb_dir_loop(_, _, _, _, _)
absorb_dir_loop(self, elems, i, cvec, adjusted) ==
    IF i > Len(elems) THEN [self |-> self, adjusted |-> adjusted]
    ELSE LET lane == self.lane_cursor % self.rate
             v0 == f_add(elems[i], cvec[lane + 1])
             should_apply_now ==
                 IF self.pending_domain_at_block_start THEN lane = 0 ELSE TRUE
             applies == /\ self.pending_domain # <<>>
                        /\ should_apply_now
                        /\ self.domain_lanes_remaining > 0
             v == IF applies THEN f_add(v0, self.pending_domain[1][lane + 1]) ELSE v0
             s1 == IF applies
                   THEN [self EXCEPT
                           !.domain_lanes_remaining = @ - 1,
                           !.pending_domain_at_block_start = FALSE,
                           !.pending_domain =
                               IF self.domain_lanes_remaining - 1 = 0 THEN <<>> ELSE @]
                   ELSE self
             s2 == [s1 EXCEPT !.lane_cursor = (@ + 1) % self.rate]
         IN  absorb_dir_loop(s2, elems, i + 1, cvec, Append(adjusted, v))

\* absorb_dir counting its calls instead of the elements it absorbed
absorb_dir_counting_calls(h, elems, class) ==
    LET r == absorb_dir_loop(h, elems, 1, class_vec(h.dir_consts, class), <<>>)
    IN  [r.self EXCEPT !.sponge = sponge_absorb(@, r.adjusted),
                       !.count = @ + 1]

absorb_dir(h, elems, class) ==
    LET r == absorb_dir_loop(h, elems, 1, class_vec(h.dir_consts, class), <<>>)
    IN  [r.self EXCEPT !.sponge = sponge_absorb(@, r.adjusted),
                       !.count = @ + Len(r.adjusted)]

\* The loop of the preview from element i on; loc holds its local copies
\* lane_cursor, pending_domain_at_block_start, domain_lanes_remaining and
\* dom_active, self is only read.
RECURSIVE preview_loop(_, _, _, _, _, _)
preview_loop(self, loc, elems, i, cvec, adjusted) ==
    IF i > Len(elems) THEN adjusted
    ELSE LET lane == loc.lane_cursor % self.rate
             v0 == f_add(elems[i], cvec[lane + 1])
             should_apply_now ==
                 IF loc.pending_domain_at_block_start THEN lane = 0 ELSE TRUE
             applies == /\ loc.dom_active
                        /\ self.pending_domain # <<>>
                        /\ should_apply_now
                        /\ loc.domain_lanes_remaining > 0
             v == IF applies THEN f_add(v0, self.pending_domain[1][lane + 1]) ELSE v0
             l1 == IF applies
                   THEN [loc EXCEPT
                           !.domain_lanes_remaining = @ - 1,
                           !.pending_domain_at_block_start = FALSE,
                           !.dom_active =
                               IF loc.domain_lanes_remaining - 1 = 0 THEN FALSE ELSE @]
                   ELSE loc
             l2 == [l1 EXCEPT !.lane_cursor = (@ + 1) % self.rate]
         IN  preview_loop(self, l2, elems, i + 1, cvec, Append(adjusted, v))

\* the preview started at lane 0 instead of at a copy of the lane cursor
preview_from_lane_zero(h, elems, class) ==
    preview_loop(h,
        [lane_cursor |-> 0,
         pending_domain_at_block_start |-> h.pending_domain_at_block_start,
         domain_lanes_remaining |-> h.domain_lanes_remaining,
         dom_active |-> h.pending_domain # <<>>],
        elems, 1, class_vec(h.dir_consts, class), <<>>)

compute_domain_in_rate_adjusted_elements_without_mutating_state(h, elems, class) ==
    preview_loop(h,
        [lane_cursor |-> h.lane_cursor,
         pending_domain_at_block_start |-> h.pending_domain_at_block_start,
         domain_lanes_remaining |-> h.domain_lanes_remaining,
         dom_active |-> h.pending_domain # <<>>],
        elems, 1, class_vec(h.dir_consts, class), <<>>)

update_base_field(h, element) == absorb_dir(h, <<element>>, "Base")

\* element.into_bigint().to_bytes_le(): the scalar on 32 bytes
scalar_to_bytes_le(element) == resize(element, 32)

update_scalar_field(h, element) ==
    LET bytes == scalar_to_bytes_le(element)
        converted == from_le_bytes_mod_order(bytes)
    IN  absorb_dir(h, <<converted>>, "Scalar")

\* update_curve_point absorbing infinity by its coordinates (0, 0)
update_curve_point_by_coordinates(h, point) ==
    absorb_dir(h, <<point.x, point.y>>, "CurveFinite")

\* a point is [inf |-> BOOLEAN, x |-> F, y |-> F]; xy() is None at infinity
update_curve_point(h, point) ==
    IF ~point.inf
    THEN absorb_dir(h, <<point.x, point.y>>, "CurveFinite")
    ELSE absorb_dir(h, <<f_zero>>, "CurveInfinity")

update_primitive(h, input) ==
    LET serialized == serialize_rust_input(input, h.primitive_buffer)
        ex == extract_field_elements(serialized)
        h1 == [h EXCEPT !.primitive_buffer = ex.buffer]
    IN  IF ex.field_elements # <<>>
        THEN absorb_dir(h1, ex.field_elements, "Primitive")
        ELSE h1

(***************************************************************************)
(* FieldInput: [tag, e (a base or scalar element), point, prim].           *)
(***************************************************************************)
NO_POINT == [inf |-> TRUE, x |-> f_zero, y |-> f_zero]
NO_PRIM == RustBool(FALSE)

BaseField(e) == [tag |-> "BaseField", e |-> e, point |-> NO_POINT, prim |-> NO_PRIM]
ScalarField(e) == [tag |-> "ScalarField", e |-> e, point |-> NO_POINT, prim |-> NO_PRIM]
CurvePoint(p) == [tag |-> "CurvePoint", e |-> f_zero, point |-> p, prim |-> NO_PRIM]
Primitive(r) == [tag |-> "Primitive", e |-> f_zero, point |-> NO_POINT, prim |-> r]

update(h, input) ==
    CASE input.tag = "BaseField" -> update_base_field(h, input.e)
      [] input.tag = "ScalarField" -> update_scalar_field(h, input.e)
      [] input.tag = "CurvePoint" -> update_curve_point(h, input.point)
      [] input.tag = "Primitive" -> update_primitive(h, input.prim)

\* digest flushing the buffer into the live hasher, as finalize does
digest_flushing(h) ==
    LET fl == flush_remaining(h.primitive_buffer)
        remaining == fl.field_elements
        h1 == [h EXCEPT !.primitive_buffer = fl.buffer]
        h2 == IF remaining # <<>> THEN absorb_dir(h1, remaining, "Primitive") ELSE h1
    IN  [self |-> h2, result |-> squeeze_native_field_elements(h2.sponge)]

\* digest(&mut self): the hasher afterwards and the element returned
digest(h) ==
    LET fl == flush_remaining(h.primitive_buffer)
        remaining == fl.field_elements
        sponge == IF remaining # <<>>
                  THEN sponge_absorb(h.sponge,
                           compute_domain_in_rate_adjusted_elements_without_mutating_state(
                               h, remaining, "Primitive"))
                  ELSE h.sponge
    IN  [self |-> h, result |-> squeeze_native_field_elements(sponge)]

\* finalize(mut self): the hasher as it is when dropped and the element returned
finalize(h) ==
    LET fl == flush_remaining(h.primitive_buffer)
        remaining == fl.field_elements
        h1 == [h EXCEPT !.primitive_buffer = fl.buffer]
        h2 == IF remaining # <<>> THEN absorb_dir(h1, remaining, "Primitive") ELSE h1
    IN  [self |-> h2, result |-> squeeze_native_field_elements(h2.sponge)]

\* reset leaving the lane cursor where it was
reset_keeping_cursor(h) ==
    [h EXCEPT !.sponge = h.base_sponge,
              !.primitive_buffer = PackingBuffer_clear(@),
              !.count = 0,
              !.pending_domain = <<>>,
              !.pending_domain_at_block_start = FALSE,
              !.domain_lanes_remaining = 0]

reset(h) ==
    [h EXCEPT !.sponge = h.base_sponge,
              !.primitive_buffer = PackingBuffer_clear(@),
              !.count = 0,
              !.lane_cursor = 0,
              !.pending_domain = <<>>,
              !.pending_domain_at_block_start = FALSE,
              !.domain_lanes_remaining = 0]

element_count(h) == h.count

(***************************************************************************)
(* The constructors and update_scalar_field for any curve, which enters by *)
(* the bit sizes [s_bits, f_bits] of its fields.  The result is << >> when *)
(* the call panics and <<hasher>> when it returns.                         *)
(***************************************************************************)
MultiFieldHasher_new(curve, rate) ==
    IF ~assert_scalar_fits_base_field(curve.s_bits, curve.f_bits) THEN <<>>
    ELSE <<new(rate)>>

MultiFieldHasher_new_from_ref(curve, rate) ==
    IF ~assert_scalar_fits_base_field(curve.s_bits, curve.f_bits) THEN <<>>
    ELSE MultiFieldHasher_new(curve, rate)

MultiFieldHasher_new_with_config(curve, rate, packing_config) ==
    IF ~assert_scalar_fits_base_field(curve.s_bits, curve.f_bits) THEN <<>>
    ELSE <<new_with_config(rate, packing_config)>>

MultiFieldHasher_new_with_config_from_ref(curve, rate, packing_config) ==
    IF ~assert_scalar_fits_base_field(curve.s_bits, curve.f_bits) THEN <<>>
    ELSE MultiFieldHasher_new_with_config(curve, rate, packing_config)

MultiFieldHasher_update_scalar_field(curve, self, element) ==
    LET fr_bits == curve.s_bits
        fq_bits == curve.f_bits
    IN  IF fr_bits > fq_bits THEN <<>>
        ELSE <<update_scalar_field(self, element)>>

\* PallasHasher::new_with_domain / new_with_config_and_domain (src/src/types.rs)
new_with_config_without_domain(rate, packing_config, domain) ==
    new_with_config(rate, packing_config)

new_with_config_and_domain(rate, packing_config, domain) ==
    absorb_domain(new_with_config(rate, packing_config), domain)

(***************************************************************************)
(* Inputs the operations are driven with.                                  *)
(***************************************************************************)
\* a - b in F
f_sub(a, b) == IF nat_lt(a, b) THEN nat_sub(nat_add(a, F_MODULUS), b) ELSE nat_sub(a, b)

\* the rates of PALLAS_PARAMS (t = 3) and PALLAS_PARAMS_T4 (t = 4)
PARAM_RATES == {2, 3}

\* the base-field element e with e + base[0] = 0 + scalar[0]
BASE_MEETING_SCALAR ==
    f_sub(derive_lane_constants(LABEL_SCALAR, 1)[1],
          derive_lane_constants(LABEL_BASE, 1)[1])

TEXT_HI == <<104, 105>>                                                  \* "hi"

POINT_INFINITY == [inf |-> TRUE, x |-> f_zero, y |-> f_zero]
POINT_FINITE == [inf |-> FALSE, x |-> <<3>>, y |-> <<4>>]

\* what the hasher of the running specification is fed
INPUTS ==
    {BaseField(f_zero), BaseField(<<5>>), ScalarField(<<5>>),
     CurvePoint(POINT_INFINITY), CurvePoint(POINT_FINITE),
     Primitive(RustInt("U8", 1)), Primitive(RustInt("U16", 258)),
     Primitive(RustText("Str", TEXT_HI))}

DOMAIN_A == <<65>>                                                       \* "A"
DOMAIN_B == <<66>>                                                       \* "B"
DOMAINS == {DOMAIN_A, DOMAIN_B}

CONFIGS ==
    {PackingConfig_default,
     PackingConfig("ByteEfficient", <<3>>, "LengthPrefix"),
     PackingConfig("CircuitFriendly", <<>>, "LengthPrefix")}

MaxOps == 3

(***************************************************************************)
(* State.                                                                  *)
(*   h     the hasher                                                      *)
(*   g     a second hasher: in Spec the one given h's updates and domains  *)
(*         but never digest(), rebuilt fresh when h is reset               *)
(*   u     in Spec the hasher given h's updates but no domain              *)
(*   prev  h before the last operation                                     *)
(*   op    the last operation                                              *)
(*   out, outG  the elements last returned by h and by g                   *)
(*   dom_at  the absorb_domain calls on h since construction or reset, in  *)
(*         order: for each, [at, tweak], h.count at the call and the tweak *)
(*         it installed                                                    *)
(*   arg   << >>, or <<input>> when the last operation was update(input)   *)
(*   progA, progB, pc  the programs of the two-hasher specifications and   *)
(*         the position in them; in Spec, pc counts the operations         *)
(***************************************************************************)
VARIABLES h, g, u, prev, op, arg, out, outG, dom_at, progA, progB, pc

vars == <<h, g, u, prev, op, arg, out, outG, dom_at, progA, progB, pc>>

\* A hasher as new_with_config builds it, or as new_with_config_and_domain does.
Init ==
    /\ scalar_fits_base_field
    /\ \E rate \in PARAM_RATES, config \in CONFIGS :
          \/ /\ h = new_with_config(rate, config)
             /\ dom_at = <<>>
          \/ /\ h = new_with_config_and_domain(rate, config, DOMAIN_A)
             /\ dom_at = <<[at |-> 0, tweak |-> derive_domain_tweak(DOMAIN_A, rate)]>>
    /\ g = h
    /\ u = new_with_config(h.rate, h.primitive_buffer.config)
    /\ prev = h
    /\ op = "new"
    /\ arg = <<>>
    /\ out = <<>>
    /\ outG = <<>>
    /\ progA = <<>>
    /\ progB = <<>>
    /\ pc = [n |-> 0, alive |-> TRUE, resets |-> 0, digests |-> 0]

Ran(name) ==
    /\ prev' = h
    /\ op' = name
    /\ pc' = [pc EXCEPT !.n = @ + 1,
                        !.alive = (name # "finalize"),
                        !.resets = IF name = "reset" THEN @ + 1 ELSE @,
                        !.digests = IF name = "digest" THEN @ + 1 ELSE @]
    /\ UNCHANGED <<progA, progB>>

CanRun == pc.alive /\ pc.n < MaxOps

Update ==
    /\ CanRun
    /\ \E input \in INPUTS :
          /\ h' = update(h, input)
          /\ g' = update(g, input)
          /\ u' = update(u, input)
          /\ arg' = <<input>>
    /\ Ran("update")
    /\ UNCHANGED <<out, outG, dom_at>>

AbsorbDomain ==
    /\ CanRun
    /\ \E domain \in DOMAINS :
          /\ h' = absorb_domain(h, domain)
          /\ g' = absorb_domain(g, domain)
          /\ dom_at' = Append(dom_at,
                 [at |-> h.count, tweak |-> derive_domain_tweak(domain, h.rate)])
    /\ arg' = <<>>
    /\ Ran("absorb_domain")
    /\ UNCHANGED <<u, out, outG>>

Digest ==
    /\ CanRun
    /\ h' = digest(h).self
    /\ out' = digest(h).result
    /\ outG' = digest(g).result
    /\ arg' = <<>>
    /\ Ran("digest")
    /\ UNCHANGED <<g, u, dom_at>>

Finalize ==
    /\ CanRun
    /\ h' = finalize(h).self
    /\ out' = finalize(h).result
    /\ g' = finalize(g).self
    /\ outG' = finalize(g).result
    /\ u' = finalize(u).self
    /\ arg' = <<>>
    /\ Ran("finalize")
    /\ UNCHANGED dom_at

\* g and u become the hasher a constructor builds with h's parameters and
\* packing configuration
Reset ==
    /\ CanRun
    /\ h' = reset(h)
    /\ g' = new_with_config(h.rate, h.primitive_buffer.config)
    /\ u' = new_with_config(h.rate, h.primitive_buffer.config)
    /\ dom_at' = <<>>
    /\ arg' = <<>>
    /\ Ran("reset")
    /\ UNCHANGED <<out, outG>>

Next == Update \/ AbsorbDomain \/ Digest \/ Finalize \/ Reset

Spec == Init /\ [][Next]_vars

(***************************************************************************)
(* Properties of Spec.                                                     *)
(***************************************************************************)
\* the elements the last operation handed to the sponge of hasher x
fed_by_last(x, before) ==
    SubSeq(x.sponge.absorbed, Len(before.sponge.absorbed) + 1, Len(x.sponge.absorbed))

\* C4: digest() leaves the sponge, the buffer, the lane cursor, the pending
\* tweak and the count as they were, and returns what the hasher given the
\* same updates and domains but no earlier digest() returns.
C4_DigestNonDestructive ==
    op = "digest" => (h = prev /\ out = outG)

C4_Witness ==
    /\ op = "digest"
    /\ pc.digests >= 2
    /\ h.primitive_buffer.bytes # <<>>
    /\ h.pending_domain # <<>>

\* C5: finalize() returns the element digest() returns on the same hasher.
C5_FinalizeEqualsDigest ==
    op = "finalize" => out = digest(prev).result

C5_Witness ==
    /\ op = "finalize"
    /\ prev.primitive_buffer.bytes # <<>>
    /\ prev.pending_domain # <<>>
    /\ prev.domain_lanes_remaining < prev.rate
    /\ prev.lane_cursor # 0

\* C6: reset() leaves the hasher a constructor builds with the same
\* parameters and packing configuration, element_count() 0, and finalizing
\* after it returns what that fresh hasher returns on the same inputs.
C6_ResetGivesFresh ==
    /\ op = "reset" =>
          /\ h = new_with_config(prev.rate, prev.primitive_buffer.config)
          /\ element_count(h) = 0
    /\ (op = "finalize" /\ pc.resets > 0) => out = outG

C6_Witness ==
    /\ op = "reset"
    /\ prev.count > 0
    /\ prev.lane_cursor # 0
    /\ prev.primitive_buffer.bytes # <<>>
    /\ prev.pending_domain # <<>>

\* the first element (from 1) on lane 0 after `at` elements were absorbed
C8_block_start(at, rate) == at + 1 + ((rate - (at % rate)) % rate)

\* element k lies in the block that the call with `at` elements absorbed is
\* to shift
C8_in_block(k, at, rate) ==
    C8_block_start(at, rate) <= k /\ k < C8_block_start(at, rate) + rate

\* the sum of the tweaks, at the lane of element k, of the calls of dom_at
\* from the i-th on whose block holds k
RECURSIVE C8_tweaks_due(_, _)
C8_tweaks_due(k, i) ==
    IF i > Len(dom_at) THEN f_zero
    ELSE LET rest == C8_tweaks_due(k, i + 1)
         IN  IF C8_in_block(k, dom_at[i].at, h.rate)
             THEN f_add(dom_at[i].tweak[((k - 1) % h.rate) + 1], rest)
             ELSE rest

\* C8: the tweak of every absorb_domain call, made with any number of
\* elements absorbed, is added to the rate elements absorbed from the first
\* one on lane 0 after the call, lane by lane, and to no other element (the
\* hasher given no domain shows the elements without tweaks).
C8_DomainTweaksOneBlock ==
    /\ Len(h.sponge.absorbed) = Len(u.sponge.absorbed)
    /\ \A k \in 1..Len(h.sponge.absorbed) :
          h.sponge.absorbed[k] = f_add(u.sponge.absorbed[k], C8_tweaks_due(k, 1))

\* The same for the last absorb_domain call alone, which every run of Spec
\* satisfies: of the elements absorbed after it, those of its block carry
\* its tweak and the others none.
LastDomainTweaksOneBlock ==
    dom_at # <<>> =>
        LET at == dom_at[Len(dom_at)].at
            tweak == dom_at[Len(dom_at)].tweak
        IN  /\ Len(h.sponge.absorbed) = Len(u.sponge.absorbed)
            /\ \A k \in (at + 1)..Len(h.sponge.absorbed) :
                  h.sponge.absorbed[k] =
                      IF C8_in_block(k, at, h.rate)
                      THEN f_add(u.sponge.absorbed[k], tweak[((k - 1) % h.rate) + 1])
                      ELSE u.sponge.absorbed[k]

U(input) == [op |-> "update", input |-> input, domain |-> <<>>]
D(domain) == [op |-> "absorb_domain", input |-> BaseField(f_zero), domain |-> domain]

\* F_MODULUS on 32 bytes, and 32 zero bytes: as integers they differ by the
\* order of F
DOMAIN_MODULUS == F_MODULUS
DOMAIN_ZEROS == [i \in 1..32 |-> 0]

PAIR_DOMAINS == {DOMAIN_A, DOMAIN_B, DOMAIN_ZEROS, DOMAIN_MODULUS}

\* the point whose coordinates are the bytes U8(1) serializes to
POINT_17_1 == [inf |-> FALSE, x |-> <<TAG_U8>>, y |-> <<1>>]

PAIR_INPUTS ==
    {BaseField(f_zero), BaseField(<<5>>), BaseField(BASE_MEETING_SCALAR),
     ScalarField(f_zero), ScalarField(<<5>>),
     CurvePoint(POINT_INFINITY), CurvePoint(POINT_17_1),
     Primitive(RustInt("U8", 1)), Primitive(RustInt("U16", 258))}

PAIR_PREFIXES == {<<>>, <<U(BaseField(<<5>>))>>, <<D(DOMAIN_A)>>}

ORDER_PAIRS ==
    {<<(<<U(a), U(b)>>), (<<U(b), U(a)>>)>> : <<a, b>> \in PAIR_INPUTS \X PAIR_INPUTS}

KIND_PAIRS ==
    {<<x[1] \o <<U(x[2])>>, x[1] \o <<U(x[3])>>>> :
        x \in PAIR_PREFIXES \X PAIR_INPUTS \X PAIR_INPUTS}

DOMAIN_PAIRS ==
    {<<(<<D(x[1]), U(x[3])>>), (<<D(x[2]), U(x[3])>>)>> :
        x \in PAIR_DOMAINS \X PAIR_DOMAINS \X PAIR_INPUTS}

\* Programs of primitive updates.  PACK_WHOLE serializes to the 30 bytes
\*   12 12 00 | 21 19 00 00 00 00 21 08 00 .. 00
\* and PACK_SHORT to the 18 bytes
\*   12 00 21 | 19 00 00 00 00 | 21 08 00 .. 00
ZEROS(n) == [i \in 1..n |-> 0]

PACK_WHOLE ==
    <<U(Primitive(RustInt("U16", 18))),
      U(Primitive(RustText("Bytes", ZEROS(4) \o <<TAG_BYTES, 8>> \o ZEROS(19))))>>

PACK_SHORT ==
    <<U(Primitive(RustInt("U16", 8448))),
      U(Primitive(RustInt("I32", 0))),
      U(Primitive(RustText("Bytes", ZEROS(8))))>>

PACK_PROGRAMS ==
    {PACK_WHOLE, PACK_SHORT,
     <<U(Primitive(RustInt("U16", 18)))>>,
     <<U(Primitive(RustInt("U16", 8448))), U(Primitive(RustInt("I32", 0)))>>,
     <<U(Primitive(RustText("Bytes", ZEROS(8)))), U(Primitive(RustInt("I32", 0)))>>}

PACK_PAIRS == PACK_PROGRAMS \X PACK_PROGRAMS

PAIR_CONFIGS ==
    {PackingConfig_default, PackingConfig("CircuitFriendly", <<>>, "LengthPrefix")}

\* scalars: 0, 5, and the order of F and 5 more, both below the order of S
SCALARS == {f_zero, <<5>>, F_MODULUS, nat_add(F_MODULUS, <<5>>)}

SCALAR_PAIRS ==
    {<<(<<U(ScalarField(x[1]))>>), (<<U(ScalarField(x[2]))>>)>> : x \in SCALARS \X SCALARS}

\* byte-efficient configurations, the second with one byte per field
MODE_CONFIGS ==
    {PackingConfig_default, PackingConfig("ByteEfficient", <<1>>, "LengthPrefix")}

MODE_PROGRAMS ==
    {<<U(Primitive(RustInt("U8", 1)))>>, <<U(Primitive(RustInt("U16", 258)))>>,
     <<U(Primitive(RustText("Str", TEXT_HI)))>>}

\* Either two hashers configured alike and a pair of programs, or a
\* byte-efficient and a circuit-friendly hasher and one program for both.
\* absorb_domain alone, against another domain and against no call at all
DOMAIN_ONLY_PAIRS ==
    {<<(<<D(x[1])>>), (<<D(x[2])>>)>> : x \in DOMAINS \X DOMAINS}
        \cup {<<(<<D(x)>>), (<<>>)>> : x \in DOMAINS}

PairInit ==
    /\ scalar_fits_base_field
    /\ \/ /\ \E config \in PAIR_CONFIGS : h = new_with_config(2, config)
          /\ g = h
          /\ \E pair \in ORDER_PAIRS \cup KIND_PAIRS \cup DOMAIN_PAIRS
                              \cup PACK_PAIRS \cup SCALAR_PAIRS
                              \cup DOMAIN_ONLY_PAIRS :
                /\ progA = pair[1]
                /\ progB = pair[2]
       \/ /\ \E config \in MODE_CONFIGS : h = new_with_config(2, config)
          /\ g = new_with_config(2, PackingConfig("CircuitFriendly", <<>>, "LengthPrefix"))
          /\ \E prog \in MODE_PROGRAMS :
                /\ progA = prog
                /\ progB = prog
    /\ u = h
    /\ prev = h
    /\ op = "new"
    /\ arg = <<>>
    /\ out = <<>>
    /\ outG = <<>>
    /\ dom_at = <<>>
    /\ pc = [who |-> "A", i |-> 1]

\* the program of the hasher whose turn it is, and its next call
PairProg == IF pc.who = "A" THEN progA ELSE progB
PairNextIs(name) ==
    /\ pc.who \in {"A", "B"}
    /\ pc.i <= Len(PairProg)
    /\ PairProg[pc.i].op = name

PairRan(name) ==
    /\ op' = name
    /\ pc' = [pc EXCEPT !.i = @ + 1]
    /\ UNCHANGED <<u, prev, arg, dom_at, progA, progB>>

PairUpdate ==
    /\ PairNextIs("update")
    /\ IF pc.who = "A"
       THEN h' = update(h, progA[pc.i].input) /\ g' = g
       ELSE g' = update(g, progB[pc.i].input) /\ h' = h
    /\ PairRan("update")
    /\ UNCHANGED <<out, outG>>

PairAbsorbDomain ==
    /\ PairNextIs("absorb_domain")
    /\ IF pc.who = "A"
       THEN h' = absorb_domain(h, progA[pc.i].domain) /\ g' = g
       ELSE g' = absorb_domain(g, progB[pc.i].domain) /\ h' = h
    /\ PairRan("absorb_domain")
    /\ UNCHANGED <<out, outG>>

PairDigest ==
    /\ pc.who \in {"A", "B"}
    /\ pc.i = Len(PairProg) + 1
    /\ IF pc.who = "A"
       THEN /\ h' = digest(h).self
            /\ out' = digest(h).result
            /\ UNCHANGED <<g, outG>>
       ELSE /\ g' = digest(g).self
            /\ outG' = digest(g).result
            /\ UNCHANGED <<h, out>>
    /\ op' = "digest"
    /\ pc' = [who |-> IF pc.who = "A" THEN "B" ELSE "done", i |-> 1]
    /\ UNCHANGED <<u, prev, arg, dom_at, progA, progB>>

PairNext == PairUpdate \/ PairAbsorbDomain \/ PairDigest

SpecPair == PairInit /\ [][PairNext]_vars

(***************************************************************************)
(* Properties of SpecPair.  With both digests returned, out and outG are   *)
(* the element sequences the two sponges were fed.                         *)
(***************************************************************************)
PairDone == pc.who = "done"

\* String and Str, Bytes and ByteSlice hold the same content
same_content(a, b) ==
    \/ a = b
    \/ /\ a.tag = "Primitive" /\ b.tag = "Primitive"
       /\ {a.prim.kind, b.prim.kind} \in {{"String", "Str"}, {"Bytes", "ByteSlice"}}
       /\ a.prim.s = b.prim.s

\* progA is update(a); update(b) and progB is update(b); update(a)
IsOrderPair ==
    /\ Len(progA) = 2 /\ Len(progB) = 2
    /\ \A i \in 1..2 : progA[i].op = "update" /\ progB[i].op = "update"
    /\ progB[1] = progA[2] /\ progB[2] = progA[1]

\* progA and progB are one prefix followed by one update each
IsKindPair ==
    /\ Len(progA) = Len(progB) /\ Len(progA) >= 1
    /\ SubSeq(progA, 1, Len(progA) - 1) = SubSeq(progB, 1, Len(progB) - 1)
    /\ progA[Len(progA)].op = "update" /\ progB[Len(progB)].op = "update"

\* progA is absorb_domain(A); update(x) and progB is absorb_domain(B); update(x)
IsDomainPair ==
    /\ Len(progA) = 2 /\ Len(progB) = 2
    /\ progA[1].op = "absorb_domain" /\ progB[1].op = "absorb_domain"
    /\ progA[2].op = "update" /\ progB[2] = progA[2]

class_of(input) ==
    CASE input.tag = "BaseField" -> "Base"
      [] input.tag = "ScalarField" -> "Scalar"
      [] input.tag = "CurvePoint" ->
            IF input.point.inf THEN "CurveInfinity" ELSE "CurveFinite"
      [] input.tag = "Primitive" -> "Primitive"

\* C1: update(a); update(b); digest() and update(b); update(a); digest() on
\* fresh hashers feed their sponges different element sequences whenever a
\* differs from b.
C1_OrderSensitive ==
    (PairDone /\ IsOrderPair /\ ~same_content(progA[1].input, progA[2].input))
        => out # outG

\* C2: two inputs of different class absorbed from identical hasher states
\* hand the sponge different elements.
C2_KindSeparation ==
    (PairDone /\ IsKindPair
        /\ class_of(progA[Len(progA)].input) # class_of(progB[Len(progB)].input))
        => out # outG

\* the field values an input is lowered to before any lane shift: what a
\* no-buffer hasher's update and digest hand to absorb_dir for it
field_values(input, config) ==
    CASE input.tag = "BaseField" -> <<input.e>>
      [] input.tag = "ScalarField" ->
            <<from_le_bytes_mod_order(scalar_to_bytes_le(input.e))>>
      [] input.tag = "CurvePoint" ->
            IF input.point.inf THEN <<f_zero>> ELSE <<input.point.x, input.point.y>>
      [] input.tag = "Primitive" ->
            LET ex == extract_field_elements(
                          serialize_rust_input(input.prim, PackingBuffer_new(config)))
            IN  ex.field_elements \o flush_remaining(ex.buffer).field_elements

\* C3: at every lane below rate (the hasher's, and the largest rate the
\* constants are built for) the five class constants are pairwise
\* different, and the same field values absorbed at the same lanes under
\* two different classes reach the sponge as different elements.
C3_ClassConstantsDiffer ==
    /\ \A lane \in 1..h.rate : \A c1, c2 \in DirClass :
          c1 # c2 => class_vec(h.dir_consts, c1)[lane] # class_vec(h.dir_consts, c2)[lane]
    /\ \A lane \in 1..MAX_RATE : \A c1, c2 \in DirClass :
          c1 # c2 => class_vec(build_dir_constants(MAX_RATE), c1)[lane]
                        # class_vec(build_dir_constants(MAX_RATE), c2)[lane]
    /\ (PairDone /\ IsKindPair
          /\ class_of(progA[Len(progA)].input) # class_of(progB[Len(progB)].input)
          /\ field_values(progA[Len(progA)].input, h.primitive_buffer.config)
               = field_values(progB[Len(progB)].input, h.primitive_buffer.config))
        => out # outG

C3_Witness ==
    /\ PairDone /\ IsKindPair
    /\ Len(progA) = 2 /\ progA[1].op = "update"
    /\ class_of(progA[2].input) = "Primitive"
    /\ class_of(progB[2].input) = "CurveFinite"
    /\ field_values(progA[2].input, h.primitive_buffer.config)
         = field_values(progB[2].input, h.primitive_buffer.config)
    /\ out # outG

\* C7: absorb_domain(A); update(x); digest() and absorb_domain(B); update(x);
\* digest() on hashers built alike feed their sponges different element
\* sequences whenever the byte strings A and B differ, and the same sequence
\* when A = B.
C7_DomainSeparation ==
    (PairDone /\ IsDomainPair) =>
        /\ progA[1].domain # progB[1].domain => out # outG
        /\ progA[1].domain = progB[1].domain => out = outG

(***************************************************************************)
(* SpecSerialize: two packing buffers, each given a sequence of primitive  *)
(* values by serialize_rust_input: h's buffer the values of progA, g's     *)
(* those of progB.                                                         *)
(***************************************************************************)
MaxSeq == 2

SER_PRIMITIVES ==
    {RustInt("U16", 258), RustInt("U8", 2), RustInt("U8", 1),
     RustInt("I8", -1), RustInt("U8", 255), RustBool(TRUE),
     RustText("String", TEXT_HI), RustText("Str", TEXT_HI),
     RustText("Bytes", TEXT_HI), RustText("ByteSlice", TEXT_HI)}

SerInit ==
    /\ h = new(2)
    /\ g = h
    /\ u = h
    /\ prev = h
    /\ op = "new"
    /\ arg = <<>>
    /\ out = <<>>
    /\ outG = <<>>
    /\ dom_at = <<>>
    /\ progA = <<>>
    /\ progB = <<>>
    /\ pc = [who |-> "serialize", i |-> 0]

SerA ==
    /\ Len(progA) < MaxSeq
    /\ \E input \in SER_PRIMITIVES :
          /\ h' = [h EXCEPT !.primitive_buffer = serialize_rust_input(input, @)]
          /\ progA' = Append(progA, input)
    /\ UNCHANGED <<g, u, prev, op, arg, out, outG, dom_at, progB, pc>>

SerB ==
    /\ Len(progB) < MaxSeq
    /\ \E input \in SER_PRIMITIVES :
          /\ g' = [g EXCEPT !.primitive_buffer = serialize_rust_input(input, @)]
          /\ progB' = Append(progB, input)
    /\ UNCHANGED <<h, u, prev, op, arg, out, outG, dom_at, progA, pc>>

SerNext == SerA \/ SerB

SpecSerialize == SerInit /\ [][SerNext]_vars

\* a value with Str read as String and ByteSlice as Bytes
canonical(input) ==
    [input EXCEPT !.kind = CASE @ = "Str" -> "String"
                             [] @ = "ByteSlice" -> "Bytes"
                             [] OTHER -> @]

\* C10: two sequences of primitive values that serialize to the same byte
\* stream are the same sequence, up to String/Str and Bytes/ByteSlice of
\* equal content.
C10_SerializationInjective ==
    h.primitive_buffer.bytes = g.primitive_buffer.bytes =>
        /\ Len(progA) = Len(progB)
        /\ \A i \in 1..Len(progA) : canonical(progA[i]) = canonical(progB[i])

C10_Witness ==
    /\ Len(progA) = 2
    /\ h.primitive_buffer.bytes = g.primitive_buffer.bytes
    /\ progA # progB
    /\ progA[1].kind = "I8"

(***************************************************************************)
(* Further properties of SpecPair.                                         *)
(***************************************************************************)
\* the primitive values a program of primitive updates absorbs, Str read as
\* String and ByteSlice as Bytes
prims_of(prog) == [i \in 1..Len(prog) |-> canonical(prog[i].input.prim)]

\* both programs are primitive updates alone, on byte-efficient hashers
\* configured alike
IsPackPair ==
    /\ h.primitive_buffer.config = g.primitive_buffer.config
    /\ h.primitive_buffer.config.mode = "ByteEfficient"
    /\ \A i \in 1..Len(progA) : progA[i].op = "update" /\ progA[i].input.tag = "Primitive"
    /\ \A i \in 1..Len(progB) : progB[i].op = "update" /\ progB[i].input.tag = "Primitive"

\* C11: in byte-efficient mode two different sequences of primitive updates
\* feed the sponge different element sequences once the remainder is
\* flushed at digest().
C11_PackedEncodingInjective ==
    (PairDone /\ IsPackPair /\ prims_of(progA) # prims_of(progB)) => out # outG

\* one program of primitive updates, run by a byte-efficient hasher (h) and
\* by a circuit-friendly one (g)
IsModePair ==
    /\ h.primitive_buffer.config.mode = "ByteEfficient"
    /\ g.primitive_buffer.config.mode = "CircuitFriendly"
    /\ progA = progB
    /\ \A i \in 1..Len(progA) : progA[i].op = "update" /\ progA[i].input.tag = "Primitive"

\* C12: a byte-efficient and a circuit-friendly hasher given the same
\* primitive payload feed their sponges different element sequences.
C12_PackingModesDiverge ==
    (PairDone /\ IsModePair) => out # outG

\* each program is one update with a scalar-field element
IsScalarPair ==
    /\ Len(progA) = 1 /\ Len(progB) = 1
    /\ progA[1].op = "update" /\ progA[1].input.tag = "ScalarField"
    /\ progB[1].op = "update" /\ progB[1].input.tag = "ScalarField"

\* C13: with the scalar field's bit size not above the base field's, two
\* different scalar-field elements (both below the order of S) are absorbed
\* as different base-field elements.
C13_ScalarConversionLossless ==
    (PairDone /\ IsScalarPair /\ scalar_fits_base_field
        /\ nat_lt(progA[1].input.e, S_MODULUS) /\ nat_lt(progB[1].input.e, S_MODULUS)
        /\ progA[1].input.e # progB[1].input.e)
        => out # outG

(***************************************************************************)
(* SpecCurve: a curve, then one constructor call, then updates with        *)
(* scalars.  h is << >> while no hasher exists and <<hasher>> afterwards.  *)
(***************************************************************************)
\* bit sizes of (scalar field, base field): Pallas, BN254, BLS12-381, and
\* three pairs with the scalar field the larger one
CURVES ==
    {[s_bits |-> 255, f_bits |-> 255], [s_bits |-> 254, f_bits |-> 254],
     [s_bits |-> 255, f_bits |-> 381],
     [s_bits |-> 255, f_bits |-> 254], [s_bits |-> 381, f_bits |-> 255],
     [s_bits |-> 256, f_bits |-> 255]}

CONSTRUCTORS == {"new", "new_from_ref", "new_with_config", "new_with_config_from_ref"}

MaxScalars == 2

CurveInit ==
    /\ h = <<>>
    /\ g = <<>>
    /\ u = <<>>
    /\ prev = <<>>
    /\ op = "none"
    /\ arg = <<>>
    /\ out = <<>>
    /\ outG = <<>>
    /\ dom_at = <<>>
    /\ progA = <<>>
    /\ progB = <<>>
    /\ \E curve \in CURVES : pc = [curve |-> curve, panicked |-> FALSE, n |-> 0]

CurveConstruct ==
    /\ h = <<>> /\ ~pc.panicked
    /\ \E ctor \in CONSTRUCTORS, rate \in PARAM_RATES, config \in CONFIGS :
          /\ h' = CASE ctor = "new" -> MultiFieldHasher_new(pc.curve, rate)
                    [] ctor = "new_from_ref" -> MultiFieldHasher_new_from_ref(pc.curve, rate)
                    [] ctor = "new_with_config" ->
                          MultiFieldHasher_new_with_config(pc.curve, rate, config)
                    [] ctor = "new_with_config_from_ref" ->
                          MultiFieldHasher_new_with_config_from_ref(pc.curve, rate, config)
          /\ op' = ctor
    /\ pc' = [pc EXCEPT !.panicked = (h' = <<>>)]
    /\ UNCHANGED <<g, u, prev, arg, out, outG, dom_at, progA, progB>>

CurveUpdateScalar ==
    /\ h # <<>> /\ ~pc.panicked /\ pc.n < MaxScalars
    /\ \E element \in SCALARS :
          LET r == MultiFieldHasher_update_scalar_field(pc.curve, h[1], element)
          IN  /\ h' = IF r = <<>> THEN h ELSE r
              /\ pc' = [pc EXCEPT !.panicked = (r = <<>>), !.n = @ + 1]
    /\ op' = "update_scalar_field"
    /\ UNCHANGED <<g, u, prev, arg, out, outG, dom_at, progA, progB>>

CurveNext == CurveConstruct \/ CurveUpdateScalar

SpecCurve == CurveInit /\ [][CurveNext]_vars

\* C14: with the scalar field's bit size above the base field's, every
\* constructor panics, so no hasher ever exists and nothing is absorbed, and
\* update_scalar_field on any hasher value panics instead of absorbing.
C14_UnsupportedCurveAborts ==
    pc.curve.s_bits > pc.curve.f_bits =>
        /\ h = <<>>
        /\ op \in CONSTRUCTORS => pc.panicked
        /\ \A rate \in PARAM_RATES, element \in SCALARS :
              MultiFieldHasher_update_scalar_field(pc.curve, new(rate), element) = <<>>

C14_Witness ==
    /\ pc.curve.s_bits = pc.curve.f_bits + 1
    /\ op = "new_with_config_from_ref"
    /\ pc.panicked
    /\ h = <<>>

(***************************************************************************)
(* SpecExtract: update_primitive with the loop of extract_field_elements   *)
(* taken one iteration at a time.  pc.at is "idle" between calls and       *)
(* "loop" at the head of the loop; pc.len0 is the number of bytes buffered *)
(* when the loop began, pc.iters the iterations made since, pc.elems the   *)
(* local field_elements.  The loop is followed for at most one iteration   *)
(* more than it had bytes.                                                 *)
(***************************************************************************)
EXTRACT_CONFIGS ==
    {PackingConfig_default,
     PackingConfig("ByteEfficient", <<0>>, "LengthPrefix"),
     PackingConfig("ByteEfficient", <<1>>, "LengthPrefix"),
     PackingConfig("ByteEfficient", <<3>>, "Zero"),
     PackingConfig("CircuitFriendly", <<>>, "LengthPrefix")}

EXTRACT_INPUTS ==
    {RustInt("U8", 1), RustInt("U16", 258), RustText("Str", TEXT_HI),
     RustText("Bytes", ZEROS(28))}

MaxUpdates == 2

ExtractInit ==
    /\ scalar_fits_base_field
    /\ \E config \in EXTRACT_CONFIGS : h = new_with_config(2, config)
    /\ g = h
    /\ u = h
    /\ prev = h
    /\ op = "new"
    /\ arg = <<>>
    /\ out = <<>>
    /\ outG = <<>>
    /\ dom_at = <<>>
    /\ progA = <<>>
    /\ progB = <<>>
    /\ pc = [at |-> "idle", n |-> 0, len0 |-> 0, iters |-> 0, elems |-> <<>>]

\* update_primitive up to the head of the loop
ExtractBegin ==
    /\ pc.at = "idle" /\ pc.n < MaxUpdates
    /\ \E input \in EXTRACT_INPUTS :
          /\ h' = [h EXCEPT !.primitive_buffer = serialize_rust_input(input, @)]
          /\ arg' = <<input>>
    /\ pc' = [at |-> "loop", n |-> pc.n + 1, len0 |-> Len(h'.primitive_buffer.bytes),
              iters |-> 0, elems |-> <<>>]
    /\ op' = "update_primitive"
    /\ prev' = h
    /\ UNCHANGED <<g, u, out, outG, dom_at, progA, progB>>

ExtractIterate ==
    /\ pc.at = "loop"
    /\ extract_continues(h.primitive_buffer)
    /\ pc.iters <= pc.len0
    /\ LET r == extract_iteration(h.primitive_buffer, pc.elems)
       IN  /\ h' = [h EXCEPT !.primitive_buffer = r.buffer]
           /\ pc' = [pc EXCEPT !.iters = @ + 1, !.elems = r.field_elements]
    /\ UNCHANGED <<g, u, prev, op, arg, out, outG, dom_at, progA, progB>>

\* the loop left: extract_field_elements returns, and update_primitive
\* absorbs what it returned
ExtractReturn ==
    /\ pc.at = "loop"
    /\ ~extract_continues(h.primitive_buffer)
    /\ h' = IF pc.elems # <<>> THEN absorb_dir(h, pc.elems, "Primitive") ELSE h
    /\ pc' = [pc EXCEPT !.at = "idle"]
    /\ UNCHANGED <<g, u, prev, op, arg, out, outG, dom_at, progA, progB>>

ExtractNext == ExtractBegin \/ ExtractIterate \/ ExtractReturn

SpecExtract == ExtractInit /\ [][ExtractNext]_vars

\* C15: under every packing configuration the loop of
\* extract_field_elements makes at most one iteration per byte it found
\* buffered, so update returns.
C15_ExtractReturns ==
    pc.iters <= pc.len0

\* taken step by step, the loop returns what extract_field_elements does
ExtractStepwiseAgrees ==
    (pc.at = "idle" /\ op = "update_primitive"
        /\ h.primitive_buffer.max_bytes_per_field > 0)
        => h = update_primitive(prev, arg[1])

(***************************************************************************)
(* The Poseidon2 sponge of src/src/poseidon2.rs.  The code is generic in   *)
(* the prime field F; the model instantiates it with the integers modulo   *)
(* P2_MODULUS.  A call that panics yields a record with panicked = TRUE.   *)
(***************************************************************************)
P2_MODULUS == 11
p2_add(a, b) == (a + b) % P2_MODULUS
p2_mul(a, b) == (a * b) % P2_MODULUS
p2_double(a) == p2_add(a, a)

\* matmul_m4 with t3 = x3 + t0 in place of 2 * x3 + t0
matmul_m4_undoubled(state) ==
    LET t4 == Len(state) \div 4
        block(s) ==
            LET t0 == p2_add(state[s + 1], state[s + 2])
                t1 == p2_add(state[s + 3], state[s + 4])
                t2 == p2_add(p2_double(state[s + 2]), t1)
                t3 == p2_add(state[s + 4], t0)
                t4_ == p2_add(p2_double(p2_double(t1)), t3)
                t5 == p2_add(p2_double(p2_double(t0)), t2)
                t6 == p2_add(t3, t5)
                t7 == p2_add(t2, t4_)
            IN  <<t6, t5, t7, t4_>>
    IN  [k \in 1..Len(state) |->
            IF k <= 4 * t4 THEN block(4 * ((k - 1) \div 4))[((k - 1) % 4) + 1]
                           ELSE state[k]]

\* y = M4 * x on every complete 4-lane block; lanes beyond t/4 blocks stay.
matmul_m4(state) ==
    LET t4 == Len(state) \div 4
        block(s) ==
            LET t0 == p2_add(state[s + 1], state[s + 2])
                t1 == p2_add(state[s + 3], state[s + 4])
                t2 == p2_add(p2_double(state[s + 2]), t1)
                t3 == p2_add(p2_double(state[s + 4]), t0)
                t4_ == p2_add(p2_double(p2_double(t1)), t3)
                t5 == p2_add(p2_double(p2_double(t0)), t2)
                t6 == p2_add(t3, t5)
                t7 == p2_add(t2, t4_)
            IN  <<t6, t5, t7, t4_>>
    IN  [k \in 1..Len(state) |->
            IF k <= 4 * t4 THEN block(4 * ((k - 1) \div 4))[((k - 1) % 4) + 1]
                           ELSE state[k]]

\* Body applied to the value of v, v evaluated once
Bind(v, Body(_)) == CHOOSE y \in {Body(x) : x \in {v}} : TRUE

RECURSIVE p2_sum(_, _)
p2_sum(state, n) == IF n = 0 THEN 0 ELSE p2_add(p2_sum(state, n - 1), state[n])

RECURSIVE lane_sum(_, _, _)
\* stored[l] = state[l] + state[4 + l] + ... over the first j blocks
lane_sum(state, l, j) ==
    IF j = 0 THEN 0 ELSE p2_add(lane_sum(state, l, j - 1), state[4 * (j - 1) + l])

matmul_external(state) ==
    LET t == Len(state)
    IN  IF t \in {2, 3}
        THEN LET sum == p2_sum(state, t)
             IN  [panicked |-> FALSE,
                  state |-> [i \in 1..t |-> p2_add(state[i], sum)]]
        ELSE IF t = 4
        THEN [panicked |-> FALSE, state |-> matmul_m4(state)]
        ELSE IF t \in {8, 12, 16, 20, 24}
        THEN Bind(matmul_m4(state), LAMBDA m :
                 [panicked |-> FALSE,
                  state |-> [i \in 1..t |->
                      p2_add(m[i], lane_sum(m, ((i - 1) % 4) + 1, t \div 4))]])
        ELSE [panicked |-> TRUE, state |-> state]

matmul_internal_with_mu(state, mu) ==
    LET t == Len(state)
        sum == p2_sum(state, t)
    IN  IF t \in {2, 3}
        THEN [panicked |-> FALSE,
              state |-> [i \in 1..t |->
                  IF i = t THEN p2_add(p2_double(state[i]), sum)
                           ELSE p2_add(state[i], sum)]]
        ELSE IF t \in {4, 8, 12, 16, 20, 24}
        THEN [panicked |-> FALSE,
              state |-> [i \in 1..t |-> p2_add(p2_mul(state[i], mu[i]), sum)]]
        ELSE [panicked |-> TRUE, state |-> state]

sbox_p(input, d) ==
    LET input2 == p2_mul(input, input)
    IN  IF d = 3 THEN p2_mul(input2, input)
        ELSE IF d = 5 THEN p2_mul(p2_mul(input2, input2), input)
        ELSE p2_mul(p2_mul(p2_mul(input2, input2), input2), input)

\* sbox_p panics on an exponent other than 3, 5, 7 when it is applied to a
\* lane; the partial round indexes lane 0.
apply_s_box(state, is_full_round, d) ==
    IF is_full_round
    THEN IF state # <<>> /\ d \notin {3, 5, 7}
         THEN [panicked |-> TRUE, state |-> state]
         ELSE [panicked |-> FALSE,
               state |-> [i \in 1..Len(state) |-> sbox_p(state[i], d)]]
    ELSE IF state = <<>> \/ d \notin {3, 5, 7}
         THEN [panicked |-> TRUE, state |-> state]
         ELSE [panicked |-> FALSE,
               state |-> [state EXCEPT ![1] = sbox_p(state[1], d)]]

\* One round r (0-based) of permute: round constants, S-box, linear layer.
\* Beside the outcome the record tells what the round did: kind, the row of
\* ark it used, the lanes (positions from 1) that received a constant and
\* the S-box, and boxed, the state before the linear layer.
permute_round(state, r, parameters) ==
    LET fr_half == parameters.full_rounds \div 2
        is_full == r < fr_half \/ r >= fr_half + parameters.partial_rounds
        kind == IF is_full THEN "full" ELSE "partial"
        lanes == IF is_full THEN 1..Len(state) ELSE {1}
    IN  IF ~is_full /\ state = <<>>
        THEN [panicked |-> TRUE, state |-> state, kind |-> kind, row |-> r,
              lanes |-> {}, boxed |-> state]
        ELSE
        LET added == [i \in 1..Len(state) |->
                         IF i \in lanes
                         THEN p2_add(state[i], parameters.ark[r + 1][i])
                         ELSE state[i]]
        IN  Bind(apply_s_box(added, is_full, parameters.d), LAMBDA boxed :
            Bind(IF boxed.panicked THEN boxed
                 ELSE IF is_full THEN matmul_external(boxed.state)
                 ELSE matmul_internal_with_mu(boxed.state, parameters.mu),
                 LAMBDA mixed :
            [panicked |-> mixed.panicked, state |-> mixed.state, kind |-> kind,
             row |-> r, lanes |-> lanes, boxed |-> boxed.state]))

RECURSIVE permute_from(_, _, _)
permute_from(state, r, parameters) ==
    IF r >= parameters.full_rounds + parameters.partial_rounds
    THEN [panicked |-> FALSE, state |-> state]
    ELSE Bind(permute_round(state, r, parameters), LAMBDA s :
             IF s.panicked THEN s ELSE permute_from(s.state, r + 1, parameters))

permute(self) ==
    Bind(matmul_external(self.state), LAMBDA pre :
        IF pre.panicked THEN pre ELSE permute_from(pre.state, 0, self.parameters))

\* PoseidonConfig::new without the assertion on the length of mu
PoseidonConfig_new_without_mu_check(full_rounds, partial_rounds, d, mds, ark, mu, rate, capacity) ==
    IF /\ Len(ark) = full_rounds + partial_rounds
       /\ \A r \in 1..Len(ark) : Len(ark[r]) = rate + capacity
       /\ Len(mds) = rate + capacity
       /\ \A r \in 1..Len(mds) : Len(mds[r]) = rate + capacity
    THEN <<[full_rounds |-> full_rounds, partial_rounds |-> partial_rounds,
            d |-> d, ark |-> ark, mu |-> mu, mds |-> mds,
            rate |-> rate, capacity |-> capacity]>>
    ELSE <<>>

\* PoseidonConfig::new: <<>> when an assertion fails, <<config>> otherwise.
PoseidonConfig_new(full_rounds, partial_rounds, d, mds, ark, mu, rate, capacity) ==
    IF /\ Len(ark) = full_rounds + partial_rounds
       /\ \A r \in 1..Len(ark) : Len(ark[r]) = rate + capacity
       /\ Len(mds) = rate + capacity
       /\ \A r \in 1..Len(mds) : Len(mds[r]) = rate + capacity
       /\ Len(mu) = rate + capacity
    THEN <<[full_rounds |-> full_rounds, partial_rounds |-> partial_rounds,
            d |-> d, ark |-> ark, mu |-> mu, mds |-> mds,
            rate |-> rate, capacity |-> capacity]>>
    ELSE <<>>

\* a sponge whose state vector has the rate lanes only
Poseidon2Sponge_new_rate_lanes(parameters) ==
    [parameters |-> parameters,
     state |-> [i \in 1..parameters.rate |-> 0],
     mode |-> [kind |-> "Absorbing", index |-> 0]]

Poseidon2Sponge_new(parameters) ==
    [parameters |-> parameters,
     state |-> [i \in 1..(parameters.rate + parameters.capacity) |-> 0],
     mode |-> [kind |-> "Absorbing", index |-> 0]]

\* compress_3 permuting the receiver's own state after adding the inputs
compress_3_on_receiver(self, x0, x1, x2) ==
    IF \/ self.parameters.rate + self.parameters.capacity # 4
       \/ self.parameters.capacity # 1
       \/ self.parameters.rate # 3
    THEN [panicked |-> TRUE, result |-> <<>>]
    ELSE Bind(permute([self EXCEPT
                     !.state = <<p2_add(self.state[1], x0), p2_add(self.state[2], x1),
                                 p2_add(self.state[3], x2), self.state[4]>>]),
              LAMBDA p :
             [panicked |-> p.panicked,
              result |-> IF p.panicked THEN <<>> ELSE <<p.state[1]>>])

\* compress_3(&self, x0, x1, x2): panics on a failed assertion or inside
\* permute, else returns lane 0 of the permuted clone.
compress_3(self, x0, x1, x2) ==
    IF \/ self.parameters.rate + self.parameters.capacity # 4
       \/ self.parameters.capacity # 1
       \/ self.parameters.rate # 3
    THEN [panicked |-> TRUE, result |-> <<>>]
    ELSE LET tmp == [self EXCEPT !.state = <<x0, x1, x2, 0>>]
         IN  Bind(permute(tmp), LAMBDA p :
             [panicked |-> p.panicked,
              result |-> IF p.panicked THEN <<>> ELSE <<p.state[1]>>])

\* the elements added from state position 0 on, capacity lanes included
add_elements_from_lane_zero(state, capacity, rate_start_index, elements, count) ==
    [k \in 1..Len(state) |->
        LET i == (k - 1) - rate_start_index
        IN  IF i >= 0 /\ i < count /\ i < Len(elements)
            THEN p2_add(state[k], elements[i + 1])
            ELSE state[k]]

\* The element-adding loops of absorb_internal: elements[i], i < count, is
\* added to state[capacity + i + rate_start_index] (indices from 0).
add_elements(state, capacity, rate_start_index, elements, count) ==
    [k \in 1..Len(state) |->
        LET i == (k - 1) - (capacity + rate_start_index)
        IN  IF i >= 0 /\ i < count /\ i < Len(elements)
            THEN p2_add(state[k], elements[i + 1])
            ELSE state[k]]

\* absorb never permuting a full block before it calls absorb_internal
absorb_entry_without_permute(self) ==
    [panicked |-> FALSE, permuted |-> FALSE,
     index |-> IF self.mode.kind = "Absorbing"
                  /\ self.mode.index # self.parameters.rate
               THEN self.mode.index ELSE 0,
     sponge |-> self]

\* absorb up to the call of absorb_internal: the start index it passes, and
\* the sponge after the permutation of a full block; permuted tells whether
\* permute was called.
absorb_entry(self) ==
    IF self.mode.kind = "Absorbing" /\ self.mode.index = self.parameters.rate
    THEN Bind(permute(self), LAMBDA p :
             [panicked |-> p.panicked, index |-> 0, permuted |-> TRUE,
              sponge |-> [self EXCEPT !.state = p.state]])
    ELSE [panicked |-> FALSE, permuted |-> FALSE,
          index |-> IF self.mode.kind = "Absorbing" THEN self.mode.index ELSE 0,
          sponge |-> self]

\* One iteration of the loop of absorb_internal.  summed is the state after
\* the elements were added and before permute, permuted tells whether
\* permute was called.
absorb_internal_iteration(self, rate_start_index, remaining_elements) ==
    LET rate == self.parameters.rate
        capacity == self.parameters.capacity
        n == Len(remaining_elements)
    IN  IF rate_start_index + n <= rate
        THEN LET summed == add_elements(self.state, capacity, rate_start_index,
                                        remaining_elements, n)
             IN  [panicked |-> FALSE, returned |-> TRUE, permuted |-> FALSE,
                  rate_start_index |-> rate_start_index, remaining |-> <<>>,
                  summed |-> summed,
                  sponge |-> [self EXCEPT
                      !.state = summed,
                      !.mode = [kind |-> "Absorbing",
                                index |-> rate_start_index + n]]]
        ELSE LET num_elements_absorbed == rate - rate_start_index
                 summed == add_elements(self.state, capacity, rate_start_index,
                                        remaining_elements, num_elements_absorbed)
             IN  Bind(permute([self EXCEPT !.state = summed]), LAMBDA p :
                 [panicked |-> p.panicked, returned |-> FALSE, permuted |-> TRUE,
                  rate_start_index |-> 0,
                  remaining |-> SubSeq(remaining_elements,
                                       num_elements_absorbed + 1, n),
                  summed |-> summed,
                  sponge |-> [self EXCEPT !.state = p.state]])

\* squeeze_native_field_elements reading the state as it stands
squeeze_entry_without_permute(self) ==
    [panicked |-> FALSE, permuted |-> FALSE,
     index |-> IF self.mode.kind = "Absorbing" THEN 0 ELSE self.mode.index,
     sponge |-> self]

\* squeeze_native_field_elements up to the call of squeeze_internal.
squeeze_entry(self) ==
    IF self.mode.kind = "Absorbing" \/ self.mode.index = self.parameters.rate
    THEN Bind(permute(self), LAMBDA p :
             [panicked |-> p.panicked, index |-> 0, permuted |-> TRUE,
              sponge |-> [self EXCEPT !.state = p.state]])
    ELSE [panicked |-> FALSE, index |-> self.mode.index, permuted |-> FALSE,
          sponge |-> self]

\* One iteration of the loop of squeeze_internal; remaining is the number of
\* output slots still to fill.  read is the set of state positions (from 1)
\* copied to the output, permuted tells whether permute was called after
\* the copy.
squeeze_internal_iteration(self, rate_start_index, remaining) ==
    LET rate == self.parameters.rate
        capacity == self.parameters.capacity
    IN  IF rate_start_index + remaining <= rate
        THEN [panicked |-> FALSE, returned |-> TRUE, permuted |-> FALSE,
              rate_start_index |-> rate_start_index, remaining |-> 0,
              read |-> (capacity + rate_start_index + 1)
                           ..(capacity + rate_start_index + remaining),
              output |-> SubSeq(self.state, capacity + rate_start_index + 1,
                                capacity + rate_start_index + remaining),
              sponge |-> [self EXCEPT
                  !.mode = [kind |-> "Squeezing",
                            index |-> rate_start_index + remaining]]]
        ELSE LET num_elements_squeezed == rate - rate_start_index
                 left == remaining - num_elements_squeezed
             IN  Bind(IF left # 0 THEN permute(self)
                      ELSE [panicked |-> FALSE, state |-> self.state],
                      LAMBDA p :
                 [panicked |-> p.panicked, returned |-> FALSE,
                  permuted |-> left # 0,
                  rate_start_index |-> 0, remaining |-> left,
                  read |-> (capacity + rate_start_index + 1)
                               ..(capacity + rate_start_index
                                      + num_elements_squeezed),
                  output |-> SubSeq(self.state, capacity + rate_start_index + 1,
                                    capacity + rate_start_index
                                        + num_elements_squeezed),
                  sponge |-> [self EXCEPT !.state = p.state]])

(***************************************************************************)
(* SpecSponge2: a Poseidon2 parameter set is offered to                    *)
(* PoseidonConfig::new; on an accepted set a sponge is built and driven    *)
(* with absorb and squeeze_native_field_elements.  The two loops of        *)
(* absorb_internal and squeeze_internal are taken one iteration at a time, *)
(* so that a call that does not return is a behaviour of the model.        *)
(* g holds the configuration, h the sponge, out the squeezed elements,     *)
(* prev the sponge before the last step.  u records what the steps did:    *)
(*   issued      the mode in which the current call was issued             *)
(*   summed      the state vector of the last step after its elements were *)
(*               added and before its permute                              *)
(*   permuted    the last step called permute                              *)
(*   fresh       the state vector is the output of permute, nothing added  *)
(*   returned    the positions copied to an output since the last permute  *)
(*   read        the positions the last step copied to the output          *)
(*   read_index  the rate index the last step copied from                  *)
(*   read_fresh, read_before   fresh and returned when read was copied     *)
(*   permutes    the permute calls of the current squeeze so far           *)
(*   first_read  permutes when the squeeze copied its first lane, else -1  *)
(***************************************************************************)
P2_FULL_ROUNDS == {0, 2}
P2_PARTIAL_ROUNDS == {0, 1}
P2_EXPONENTS == {2, 5}
\* <<rate, capacity>>
P2_SHAPES ==
    {<<0, 2>>, <<1, 1>>, <<2, 0>>, <<2, 1>>, <<2, 2>>, <<3, 1>>, <<4, 1>>, <<7, 1>>}
P2_DEFECTS ==
    {"none", "ark_rows", "ark_cols", "mds_rows", "mds_cols", "mu", "mu_short"}
P2_ABSORBED == {<<>>, <<1>>, <<1, 2, 3>>}
P2_SQUEEZED == {0, 1, 3}
P2_TRIPLES == {<<0, 0, 0>>, <<1, 2, 3>>, <<3, 2, 1>>}
MaxSpongeOps == 2

p2_matrix(rows, cols) == [r \in 1..rows |-> [i \in 1..cols |-> (r + i) % P2_MODULUS]]
p2_mu(t) == [i \in 1..t |-> (i + 1) % P2_MODULUS]

NO_MODE == [kind |-> "none", index |-> 0]

Sponge2Init ==
    /\ h = <<>> /\ g = <<>> /\ prev = <<>>
    /\ u = [issued |-> NO_MODE, summed |-> <<>>, fresh |-> FALSE,
            permuted |-> FALSE,
            returned |-> {}, read |-> {}, read_index |-> 0, read_fresh |-> FALSE,
            read_before |-> {}, permutes |-> 0, first_read |-> -1]
    /\ op = "none" /\ arg = <<>> /\ out = <<>> /\ outG = <<>>
    /\ dom_at = <<>> /\ progA = <<>> /\ progB = <<>>
    /\ pc = [at |-> "start", n |-> 0, rate_start_index |-> 0,
             remaining |-> <<>>, left |-> 0, iters |-> 0, len0 |-> 0]

Sponge2ConfigNew ==
    /\ pc.at = "start"
    /\ \E rf \in P2_FULL_ROUNDS, rp \in P2_PARTIAL_ROUNDS, d \in P2_EXPONENTS,
          shape \in P2_SHAPES, defect \in P2_DEFECTS :
          LET t == shape[1] + shape[2]
              ark == p2_matrix(IF defect = "ark_rows" THEN rf + rp + 1 ELSE rf + rp,
                               IF defect = "ark_cols" THEN t + 1 ELSE t)
              mds == p2_matrix(IF defect = "mds_rows" THEN t + 1 ELSE t,
                               IF defect = "mds_cols" THEN t + 1 ELSE t)
              mu == p2_mu(IF defect = "mu" THEN t + 1
                          ELSE IF defect = "mu_short" /\ t > 0 THEN t - 1 ELSE t)
              cfg == PoseidonConfig_new(rf, rp, d, mds, ark, mu, shape[1], shape[2])
          IN  /\ g' = cfg
              /\ arg' = <<[full_rounds |-> rf, partial_rounds |-> rp, d |-> d,
                           mds |-> mds, ark |-> ark, mu |-> mu,
                           rate |-> shape[1], capacity |-> shape[2]]>>
              /\ pc' = [pc EXCEPT !.at = IF cfg = <<>> THEN "rejected" ELSE "accepted"]
    /\ op' = "PoseidonConfig_new"
    /\ UNCHANGED <<h, u, prev, out, outG, dom_at, progA, progB>>

Sponge2New ==
    /\ pc.at = "accepted"
    /\ h' = <<Poseidon2Sponge_new(g[1])>>
    /\ prev' = h
    /\ pc' = [pc EXCEPT !.at = "idle"]
    /\ op' = "new"
    /\ UNCHANGED <<g, u, arg, out, outG, dom_at, progA, progB>>

Sponge2Absorb ==
    /\ pc.at = "idle" /\ pc.n < MaxSpongeOps
    /\ \E elems \in P2_ABSORBED :
          /\ arg' = <<elems>>
          /\ IF elems = <<>>
             THEN /\ h' = h
                  /\ pc' = [pc EXCEPT !.n = pc.n + 1, !.iters = 0, !.len0 = 0]
                  /\ u' = [u EXCEPT !.issued = h[1].mode, !.summed = h[1].state,
                                    !.permuted = FALSE, !.read = {}]
             ELSE \E e \in {absorb_entry(h[1])} :
                      /\ h' = <<e.sponge>>
                      /\ pc' = [pc EXCEPT
                             !.at = IF e.panicked THEN "panicked" ELSE "absorb_internal",
                             !.rate_start_index = e.index, !.remaining = elems,
                             !.iters = 0, !.len0 = Len(elems)]
                      /\ u' = [u EXCEPT
                             !.issued = h[1].mode, !.summed = h[1].state,
                             !.permuted = e.permuted, !.read = {},
                             !.fresh = IF e.permuted THEN TRUE ELSE @,
                             !.returned = IF e.permuted THEN {} ELSE @]
    /\ prev' = h
    /\ op' = "absorb"
    /\ UNCHANGED <<g, out, outG, dom_at, progA, progB>>

Sponge2AbsorbIterate ==
    /\ pc.at = "absorb_internal" /\ pc.iters <= pc.len0 + 1
    /\ \E r \in {absorb_internal_iteration(h[1], pc.rate_start_index,
                                            pc.remaining)} :
           /\ h' = <<r.sponge>>
           /\ pc' = [pc EXCEPT
                  !.at = IF r.panicked THEN "panicked"
                         ELSE IF r.returned THEN "idle" ELSE "absorb_internal",
                  !.n = IF r.returned THEN pc.n + 1 ELSE pc.n,
                  !.rate_start_index = r.rate_start_index,
                  !.remaining = r.remaining, !.iters = pc.iters + 1]
           /\ u' = [u EXCEPT
                  !.summed = r.summed, !.permuted = r.permuted, !.read = {},
                  !.fresh = r.permuted,
                  !.returned = IF r.permuted THEN {} ELSE @]
    /\ prev' = h
    /\ UNCHANGED <<g, op, arg, out, outG, dom_at, progA, progB>>

Sponge2Squeeze ==
    /\ pc.at = "idle" /\ pc.n < MaxSpongeOps
    /\ \E num_elements \in P2_SQUEEZED :
          \E e \in {squeeze_entry(h[1])} :
              /\ arg' = <<num_elements>>
              /\ h' = <<e.sponge>>
              /\ pc' = [pc EXCEPT
                     !.at = IF e.panicked THEN "panicked" ELSE "squeeze_internal",
                     !.rate_start_index = e.index, !.left = num_elements,
                     !.iters = 0, !.len0 = num_elements]
              /\ u' = [u EXCEPT
                     !.issued = h[1].mode, !.summed = h[1].state,
                     !.permuted = e.permuted, !.read = {},
                     !.fresh = IF e.permuted THEN TRUE ELSE @,
                     !.returned = IF e.permuted THEN {} ELSE @,
                     !.permutes = IF e.permuted THEN 1 ELSE 0,
                     !.first_read = -1]
    /\ prev' = h
    /\ op' = "squeeze_native_field_elements"
    /\ out' = <<>>
    /\ UNCHANGED <<g, outG, dom_at, progA, progB>>

Sponge2SqueezeIterate ==
    /\ pc.at = "squeeze_internal" /\ pc.iters <= pc.len0 + 1
    /\ \E r \in {squeeze_internal_iteration(h[1], pc.rate_start_index, pc.left)} :
           /\ h' = <<r.sponge>>
           /\ out' = out \o r.output
           /\ pc' = [pc EXCEPT
                  !.at = IF r.panicked THEN "panicked"
                         ELSE IF r.returned THEN "idle" ELSE "squeeze_internal",
                  !.n = IF r.returned THEN pc.n + 1 ELSE pc.n,
                  !.rate_start_index = r.rate_start_index,
                  !.left = r.remaining, !.iters = pc.iters + 1]
           /\ u' = [u EXCEPT
                  !.summed = h[1].state,
                  !.permuted = r.permuted,
                  !.read = r.read,
                  !.read_index = pc.rate_start_index,
                  !.read_fresh = u.fresh,
                  !.read_before = u.returned,
                  !.first_read = IF @ = -1 /\ r.read # {} THEN u.permutes ELSE @,
                  !.permutes = IF r.permuted THEN @ + 1 ELSE @,
                  !.returned = IF r.permuted THEN {} ELSE @ \cup r.read]
    /\ prev' = h
    /\ UNCHANGED <<g, op, arg, outG, dom_at, progA, progB>>

\* the receiver is borrowed immutably: h stays, outG takes the result
Sponge2Compress3 ==
    /\ pc.at = "idle" /\ pc.n < MaxSpongeOps
    /\ \E x \in P2_TRIPLES :
          \E c \in {compress_3(h[1], x[1], x[2], x[3])} :
              /\ arg' = <<x>>
              /\ outG' = c.result
              /\ pc' = [pc EXCEPT !.at = IF c.panicked THEN "panicked" ELSE "idle",
                                  !.n = pc.n + 1, !.iters = 0, !.len0 = 0]
    /\ h' = h
    /\ prev' = h
    /\ u' = [u EXCEPT !.issued = h[1].mode, !.summed = h[1].state,
                      !.permuted = FALSE, !.read = {}]
    /\ op' = "compress_3"
    /\ UNCHANGED <<g, out, dom_at, progA, progB>>

Sponge2Next ==
    \/ Sponge2ConfigNew
    \/ Sponge2New
    \/ Sponge2Absorb
    \/ Sponge2AbsorbIterate
    \/ Sponge2Squeeze
    \/ Sponge2SqueezeIterate
    \/ Sponge2Compress3

SpecSponge2 == Sponge2Init /\ [][Sponge2Next]_vars

\* C16: once PoseidonConfig::new has accepted a parameter set, no absorb or
\* squeeze panics, and each of them returns: the loop of absorb_internal or
\* squeeze_internal makes at most one iteration more than the number of
\* elements it was given.
C16_AcceptedNeverAborts ==
    op # "compress_3" =>
        /\ pc.at # "panicked"
        /\ pc.iters <= pc.len0 + 1

\* The first half alone: no panic of absorb or squeeze after acceptance.
Sponge2NoPanic == op # "compress_3" => pc.at # "panicked"

\* The second half alone: every loop returns.
Sponge2Returns == pc.iters <= pc.len0 + 1

\* On the supported widths with a supported exponent and a non-zero rate
\* absorb and squeeze neither panic nor loop, and a squeeze returns what was
\* asked.
Sponge2SupportedRuns ==
    (g # <<>> /\ g[1].rate > 0 /\ g[1].rate + g[1].capacity \in {2, 3, 4, 8}
        /\ (g[1].d \in {3, 5, 7} \/ g[1].full_rounds + g[1].partial_rounds = 0)
        /\ op # "compress_3")
    => /\ pc.at # "panicked"
       /\ pc.iters <= pc.len0 + 1
       /\ (pc.at = "idle" /\ op = "squeeze_native_field_elements")
              => Len(out) = arg[1]

(***************************************************************************)
(* SpecTwin: two hashers h and g are built with the same parameters,       *)
(* packing configuration and domain, h by new_with_config or               *)
(* new_with_config_and_domain, g by new_with_config_from_ref followed by   *)
(* absorb_domain, and are given the same operations.                       *)
(***************************************************************************)
PALLAS == [s_bits |-> S_MODULUS_BIT_SIZE, f_bits |-> F_MODULUS_BIT_SIZE]

TWIN_INPUTS ==
    {Primitive(RustInt("U64", 42)), Primitive(RustBool(TRUE)),
     Primitive(RustText("Bytes", <<9, 8, 7>>)),
     BaseField(<<5>>), ScalarField(<<5>>), CurvePoint(POINT_FINITE)}

MaxTwinOps == 3

TwinInit ==
    /\ \E rate \in PARAM_RATES, config \in CONFIGS :
          \/ /\ h = MultiFieldHasher_new_with_config(PALLAS, rate, config)[1]
             /\ g = MultiFieldHasher_new_with_config_from_ref(PALLAS, rate, config)[1]
          \/ \E domain \in DOMAINS :
                /\ h = new_with_config_and_domain(rate, config, domain)
                /\ g = absorb_domain(
                          MultiFieldHasher_new_with_config_from_ref(
                              PALLAS, rate, config)[1], domain)
    /\ u = <<>> /\ prev = h
    /\ op = "new" /\ arg = <<>> /\ out = <<>> /\ outG = <<>>
    /\ dom_at = <<>> /\ progA = <<>> /\ progB = <<>>
    /\ pc = [n |-> 0, alive |-> TRUE, resets |-> 0, digests |-> 0]

TwinUpdate ==
    /\ CanRun
    /\ pc.n < MaxTwinOps
    /\ \E input \in TWIN_INPUTS :
          /\ h' = update(h, input)
          /\ g' = update(g, input)
          /\ arg' = <<input>>
    /\ Ran("update")
    /\ UNCHANGED <<u, out, outG, dom_at>>

TwinAbsorbDomain ==
    /\ CanRun
    /\ pc.n < MaxTwinOps
    /\ \E domain \in DOMAINS :
          /\ h' = absorb_domain(h, domain)
          /\ g' = absorb_domain(g, domain)
    /\ arg' = <<>>
    /\ Ran("absorb_domain")
    /\ UNCHANGED <<u, out, outG, dom_at>>

TwinDigest ==
    /\ CanRun
    /\ pc.n < MaxTwinOps
    /\ h' = digest(h).self
    /\ out' = digest(h).result
    /\ g' = digest(g).self
    /\ outG' = digest(g).result
    /\ arg' = <<>>
    /\ Ran("digest")
    /\ UNCHANGED <<u, dom_at>>

TwinFinalize ==
    /\ CanRun
    /\ pc.n < MaxTwinOps
    /\ h' = finalize(h).self
    /\ out' = finalize(h).result
    /\ g' = finalize(g).self
    /\ outG' = finalize(g).result
    /\ arg' = <<>>
    /\ Ran("finalize")
    /\ UNCHANGED <<u, dom_at>>

TwinReset ==
    /\ CanRun
    /\ pc.n < MaxTwinOps
    /\ h' = reset(h)
    /\ g' = reset(g)
    /\ arg' = <<>>
    /\ Ran("reset")
    /\ UNCHANGED <<u, out, outG, dom_at>>

TwinNext ==
    \/ TwinUpdate
    \/ TwinAbsorbDomain
    \/ TwinDigest
    \/ TwinFinalize
    \/ TwinReset

SpecTwin == TwinInit /\ [][TwinNext]_vars

C18_ElementCountIsAbsorbed ==
    /\ element_count(h) = Len(h.sponge.absorbed)
    /\ op = "digest" => element_count(h) = element_count(prev)

\* digest() was called on a hasher that had absorbed two or more elements
\* and held bytes in its packing buffer
C18_Witness ==
    /\ op = "digest"
    /\ element_count(h) >= 2
    /\ h.primitive_buffer.bytes # <<>>

(***************************************************************************)
(* SpecMerkle: the two node compressions of src/benches/merkle_binary.rs.  *)
(* h is the one hasher of build_merkle_binary_reuse, built once with       *)
(* new_with_domain and given update(a); update(b); digest(); reset() for   *)
(* each node; g is the hasher compress2_new builds for the same node with  *)
(* new_with_domain and finalizes.  pc.node counts the nodes, pc.fed the    *)
(* children of the node absorbed so far, dom_at the domain.                *)
(***************************************************************************)
LEAVES == {f_zero, <<5>>, <<7>>}
MaxNodes == 3

MerkleInit ==
    /\ \E rate \in PARAM_RATES, domain \in DOMAINS :
          /\ h = new_with_config_and_domain(rate, PackingConfig_default, domain)
          /\ g = new_with_config_and_domain(rate, PackingConfig_default, domain)
          /\ dom_at = <<domain>>
    /\ u = <<>> /\ prev = h
    /\ op = "new" /\ arg = <<>> /\ out = <<>> /\ outG = <<>>
    /\ progA = <<>> /\ progB = <<>>
    /\ pc = [node |-> 1, fed |-> 0, at |-> "update"]

MerkleUpdate ==
    /\ pc.at = "update"
    /\ \E leaf \in LEAVES :
          /\ h' = update(h, BaseField(leaf))
          /\ g' = update(g, BaseField(leaf))
          /\ arg' = <<BaseField(leaf)>>
    /\ pc' = [pc EXCEPT !.fed = pc.fed + 1,
                        !.at = IF pc.fed + 1 = 2 THEN "digest" ELSE "update"]
    /\ prev' = h
    /\ op' = "update"
    /\ UNCHANGED <<u, out, outG, dom_at, progA, progB>>

MerkleDigest ==
    /\ pc.at = "digest"
    /\ h' = digest(h).self
    /\ out' = digest(h).result
    /\ g' = finalize(g).self
    /\ outG' = finalize(g).result
    /\ pc' = [pc EXCEPT !.at = "reset"]
    /\ prev' = h
    /\ op' = "digest"
    /\ arg' = <<>>
    /\ UNCHANGED <<u, dom_at, progA, progB>>

MerkleReset ==
    /\ pc.at = "reset"
    /\ pc.node < MaxNodes
    /\ h' = reset(h)
    /\ g' = new_with_config_and_domain(h.rate, PackingConfig_default, dom_at[1])
    /\ pc' = [pc EXCEPT !.node = pc.node + 1, !.fed = 0, !.at = "update"]
    /\ prev' = h
    /\ op' = "reset"
    /\ arg' = <<>>
    /\ UNCHANGED <<u, out, outG, dom_at, progA, progB>>

MerkleNext ==
    \/ MerkleUpdate
    \/ MerkleDigest
    \/ MerkleReset

SpecMerkle == MerkleInit /\ [][MerkleNext]_vars

\* C19: for every node the reused hasher returns what a fresh
\* new_with_domain(D) hasher fed the same two children returns.
C19_ReuseEqualsFresh == op = "digest" => out = outG

\* For the first node the two agree.
FirstNodeReuseEqualsFresh == (op = "digest" /\ pc.node = 1) => out = outG

(***************************************************************************)
(* Domain-only programs of SpecPair.                                       *)
(***************************************************************************)
\* progA is absorb_domain(A) alone; progB is absorb_domain(B) alone or empty
IsDomainOnlyPair ==
    /\ Len(progA) = 1 /\ progA[1].op = "absorb_domain"
    /\ \/ progB = <<>>
       \/ Len(progB) = 1 /\ progB[1].op = "absorb_domain"

\* C20: with no element absorbed after it, absorb_domain(A) gives a digest
\* that differs from the one absorb_domain(B) gives for B different from A,
\* and from the digest of a hasher given no domain.
C20_DomainOnlySeparation ==
    (PairDone /\ IsDomainOnlyPair /\ progA # progB) => out # outG

\* The same domain alone gives the same digest.
DomainOnlySameDomain ==
    (PairDone /\ IsDomainOnlyPair /\ progA = progB) => out = outG

(***************************************************************************)
(* Further properties of SpecSponge2.                                      *)
(***************************************************************************)
\* C21: a new sponge is Absorbing{0} with an all-zero state vector of
\* length rate + capacity; after any absorb and squeeze steps the mode index
\* is within 0..rate and the state vector has length rate + capacity.
C21_SpongeModeInvariant ==
    h # <<>> =>
        /\ h[1].mode.kind \in {"Absorbing", "Squeezing"}
        /\ h[1].mode.index \in 0..h[1].parameters.rate
        /\ Len(h[1].state) = h[1].parameters.rate + h[1].parameters.capacity
        /\ op = "new" =>
              /\ h[1].mode = [kind |-> "Absorbing", index |-> 0]
              /\ \A i \in 1..Len(h[1].state) : h[1].state[i] = 0

\* two calls have returned and left the sponge squeezing at the end of a
\* block of two or more lanes
C21_Witness ==
    /\ pc.at = "idle" /\ pc.n = MaxSpongeOps
    /\ h[1].mode = [kind |-> "Squeezing", index |-> h[1].parameters.rate]
    /\ h[1].parameters.rate >= 2

\* the lane offset after the last element of an absorb of n elements issued
\* in mode m on a sponge of the given rate
offset_after(m, n, rate) ==
    LET start == IF m.kind = "Absorbing"
                 THEN (IF m.index = rate /\ n > 0 THEN 0 ELSE m.index)
                 ELSE 0
    IN  IF n = 0 THEN start ELSE ((start + n - 1) % rate) + 1

\* C22: after absorb(elements) returns, for every element sequence and from
\* either prior mode, the sponge is Absorbing{idx'}, idx' the lane offset
\* after the last absorbed element; a call made while Squeezing starts at
\* lane 0.
C22_AbsorbLeavesAbsorbing ==
    (op = "absorb" /\ pc.at = "idle") =>
        h[1].mode = [kind |-> "Absorbing",
                     index |-> offset_after(u.issued, Len(arg[1]),
                                            h[1].parameters.rate)]

\* The same for the calls that absorb at least one element.
AbsorbOfElementsLeavesAbsorbing ==
    (op = "absorb" /\ pc.at = "idle" /\ arg[1] # <<>>) =>
        h[1].mode = [kind |-> "Absorbing",
                     index |-> offset_after(u.issued, Len(arg[1]),
                                            h[1].parameters.rate)]

\* absorb of three elements issued while Squeezing has returned on a sponge
\* of rate 2
AbsorbAfterSqueezeReturned ==
    /\ op = "absorb" /\ pc.at = "idle" /\ Len(arg[1]) = 3
    /\ u.issued.kind = "Squeezing" /\ h[1].parameters.rate = 2

capacity_lanes(sponge, state) == SubSeq(state, 1, sponge.parameters.capacity)

\* C24: the capacity lanes (the state positions below capacity) are not
\* written by absorb and not returned by squeeze: over the absorb and
\* squeeze steps they change only inside permute.
C24_CapacityLanesFramed ==
    (h # <<>> /\ prev # <<>>) =>
        /\ capacity_lanes(h[1], u.summed) = capacity_lanes(h[1], prev[1].state)
        /\ ~u.permuted =>
              capacity_lanes(h[1], h[1].state) = capacity_lanes(h[1], prev[1].state)
        /\ \A pos \in u.read : pos > h[1].parameters.capacity

\* an absorb step has added elements to the rate lanes and then permuted,
\* which changed a capacity lane
C24_Witness ==
    /\ op = "absorb" /\ prev # <<>> /\ pc.at # "panicked"
    /\ h[1].parameters.capacity >= 1
    /\ u.permuted
    /\ u.summed # prev[1].state
    /\ h[1].state[1] # prev[1].state[1]

Compress3AbortsOnCapacity ==
    /\ op = "compress_3" /\ pc.at = "panicked"
    /\ g[1].rate = 2 /\ g[1].capacity = 2

\* the round-constant table has full_rounds + partial_rounds rows of length
\* rate + capacity, the matrix is square of that size, mu has that length
well_formed(p) ==
    /\ Len(p.ark) = p.full_rounds + p.partial_rounds
    /\ \A r \in 1..Len(p.ark) : Len(p.ark[r]) = p.rate + p.capacity
    /\ Len(p.mds) = p.rate + p.capacity
    /\ \A r \in 1..Len(p.mds) : Len(p.mds[r]) = p.rate + p.capacity
    /\ Len(p.mu) = p.rate + p.capacity

PERMUTE_WIDTHS == {2, 3, 4, 5, 8, 12, 16, 20, 24}
PERMUTE_FULL_ROUNDS == {0, 2, 3}
PERMUTE_PARTIAL_ROUNDS == {0, 2}
PERMUTE_EXPONENTS == {3, 5}

\* the unit vectors, the all-ones vector and two others, of width t
PERMUTE_STATES(t) ==
    {[i \in 1..t |-> IF i = k THEN 1 ELSE 0] : k \in 1..t}
        \cup {[i \in 1..t |-> 1],
              [i \in 1..t |-> i % P2_MODULUS],
              [i \in 1..t |-> (3 * i * i + 1) % P2_MODULUS]}

PermuteInit ==
    /\ \E t \in PERMUTE_WIDTHS, rf \in PERMUTE_FULL_ROUNDS,
          rp \in PERMUTE_PARTIAL_ROUNDS, d \in PERMUTE_EXPONENTS :
          \E state \in PERMUTE_STATES(t) :
             LET cfg == PoseidonConfig_new(rf, rp, d, p2_matrix(t, t),
                                           p2_matrix(rf + rp, t), p2_mu(t), t - 1, 1)
             IN  /\ cfg # <<>>
                 /\ h = [Poseidon2Sponge_new(cfg[1]) EXCEPT !.state = state]
    /\ g = h
    /\ u = h.state /\ prev = h.state
    /\ op = "none" /\ arg = <<>> /\ out = <<>> /\ outG = <<>>
    /\ dom_at = <<>> /\ progA = <<>> /\ progB = <<>>
    /\ pc = [at |-> "external", r |-> 0]

\* 1) the pre-round external mix
PermuteExternal ==
    /\ pc.at = "external"
    /\ LET m == matmul_external(h.state)
       IN  /\ h' = [h EXCEPT !.state = m.state]
           /\ pc' = [pc EXCEPT !.at = IF m.panicked THEN "panicked" ELSE "rounds"]
    /\ u' = h.state
    /\ prev' = h.state
    /\ progA' = Append(progA, [kind |-> "external", row |-> -1, lanes |-> {}])
    /\ op' = "matmul_external"
    /\ UNCHANGED <<g, arg, out, outG, dom_at, progB>>

\* one round of the loops 2), 3), 4)
PermuteRound ==
    /\ pc.at = "rounds"
    /\ pc.r < h.parameters.full_rounds + h.parameters.partial_rounds
    /\ LET s == permute_round(h.state, pc.r, h.parameters)
       IN  /\ h' = [h EXCEPT !.state = s.state]
           /\ pc' = [at |-> IF s.panicked THEN "panicked" ELSE "rounds",
                     r |-> pc.r + 1]
           /\ prev' = s.boxed
           /\ progA' = Append(progA, [kind |-> s.kind, row |-> s.row,
                                      lanes |-> s.lanes])
           /\ op' = s.kind
    /\ u' = h.state
    /\ UNCHANGED <<g, arg, out, outG, dom_at, progB>>

PermuteReturn ==
    /\ pc.at = "rounds"
    /\ pc.r >= h.parameters.full_rounds + h.parameters.partial_rounds
    /\ pc' = [pc EXCEPT !.at = "done"]
    /\ op' = "permute"
    /\ UNCHANGED <<h, g, u, prev, arg, out, outG, dom_at, progA, progB>>

PermuteNext ==
    \/ PermuteExternal
    \/ PermuteRound
    \/ PermuteReturn

SpecPermute == PermuteInit /\ [][PermuteNext]_vars

\* The steps taken one at a time end in the state permute computes.
PermuteStepwiseAgrees ==
    pc.at = "done" => (~permute(g).panicked /\ h.state = permute(g).state)

\* the rounds of a finished permute, without the opening external mix
rounds_done == SubSeq(progA, 2, Len(progA))

\* C25: one permute call executes one external mix, full_rounds/2 full
\* rounds, partial_rounds partial rounds and full_rounds/2 more full rounds,
\* whatever the state values and for every accepted full_rounds; round r
\* uses row r of the round constants, so every row is used once; a partial
\* round adds the constant and applies the S-box to lane 0 only.
C25_PermuteSchedule ==
    pc.at = "done" =>
        LET half == h.parameters.full_rounds \div 2
            rp == h.parameters.partial_rounds
        IN  /\ progA[1].kind = "external"
            /\ Len(rounds_done) = half + rp + half
            /\ \A i \in 1..Len(rounds_done) :
                  /\ rounds_done[i].row = i - 1
                  /\ rounds_done[i].kind =
                        (IF i <= half \/ i > half + rp THEN "full" ELSE "partial")
                  /\ rounds_done[i].lanes =
                        (IF rounds_done[i].kind = "partial" THEN {1}
                         ELSE 1..Len(h.state))
            /\ {rounds_done[i].row : i \in 1..Len(rounds_done)}
                  = 0..(h.parameters.full_rounds + rp - 1)

\* The schedule of the code: the second half has full_rounds - full_rounds/2
\* full rounds, one more than the first half when full_rounds is odd.
PermuteScheduleOfCode ==
    pc.at = "done" =>
        LET half == h.parameters.full_rounds \div 2
            rp == h.parameters.partial_rounds
        IN  /\ progA[1].kind = "external"
            /\ Len(rounds_done) = h.parameters.full_rounds + rp
            /\ \A i \in 1..Len(rounds_done) :
                  /\ rounds_done[i].row = i - 1
                  /\ rounds_done[i].kind =
                        (IF i <= half \/ i > half + rp THEN "full" ELSE "partial")
                  /\ rounds_done[i].lanes =
                        (IF rounds_done[i].kind = "partial" THEN {1}
                         ELSE 1..Len(h.state))

\* C26: in every partial round and for every supported width the internal
\* mixing maps x to y with y_i = (sum of all x_j) + mu_i * x_i, mu the
\* diagonal of the parameter set in use.
C26_InternalMixUsesMu ==
    (op = "partial" /\ pc.at # "panicked") =>
        \A i \in 1..Len(h.state) :
            h.state[i] = p2_add(p2_sum(prev, Len(prev)),
                                p2_mul(h.parameters.mu[i], prev[i]))

\* For the widths that are multiples of 4 the diagonal in use is mu.
InternalMixUsesMuFromWidth4 ==
    (op = "partial" /\ pc.at # "panicked" /\ Len(h.state) >= 4) =>
        \A i \in 1..Len(h.state) :
            h.state[i] = p2_add(p2_sum(prev, Len(prev)),
                                p2_mul(h.parameters.mu[i], prev[i]))

\* For the widths 2 and 3 the diagonal in use is 1, .., 1, 2 whatever mu is.
InternalMixFixedBelowWidth4 ==
    (op = "partial" /\ pc.at # "panicked" /\ Len(h.state) < 4) =>
        \A i \in 1..Len(h.state) :
            h.state[i] = p2_add(p2_sum(prev, Len(prev)),
                                p2_mul(IF i = Len(h.state) THEN 2 ELSE 1, prev[i]))

M4 == <<(<<5, 7, 1, 3>>), (<<4, 6, 1, 1>>), (<<1, 3, 5, 7>>), (<<1, 1, 4, 6>>)>>

\* circ(2, 1, .., 1) for the widths 2 and 3, M4 for width 4, and for the
\* multiples of 4 the matrix of 4x4 blocks, 2 * M4 on the diagonal and M4
\* elsewhere
external_matrix(t) ==
    [i \in 1..t |-> [j \in 1..t |->
        IF t < 4 THEN (IF i = j THEN 2 ELSE 1)
        ELSE LET m == M4[((i - 1) % 4) + 1][((j - 1) % 4) + 1]
             IN  IF (i - 1) \div 4 = (j - 1) \div 4 /\ t > 4 THEN 2 * m ELSE m]]

RECURSIVE dot(_, _, _)
dot(row, x, n) ==
    IF n = 0 THEN 0 ELSE p2_add(dot(row, x, n - 1), p2_mul(row[n] % P2_MODULUS, x[n]))

mat_vec(m, x) == [i \in 1..Len(x) |-> dot(m[i], x, Len(x))]

\* C27: for every input state the external mixing is the multiplication by
\* a fixed matrix: circ(2,1) for width 2, circ(2,1,1) for width 3, M4 for
\* width 4, and for the widths 8, 12, 16, 20, 24 the block matrix with
\* 2 * M4 on the diagonal blocks and M4 on the others.
C27_ExternalMixIsMatrix ==
    (op \in {"matmul_external", "full"} /\ pc.at # "panicked") =>
        h.state = mat_vec(external_matrix(Len(prev)), prev)

\* the external mixing has been applied to a state of width 8 in which the
\* two blocks differ
C27_Witness ==
    /\ op = "full" /\ pc.at # "panicked"
    /\ Len(prev) = 8
    /\ SubSeq(prev, 1, 4) # SubSeq(prev, 5, 8)
    /\ h.state # prev

(***************************************************************************)
(* The derivation of the diagonal mu, gen_mu_internal_from_grain.  The     *)
(* Grain LFSR it draws from is outside src/: a draw is any vector of t     *)
(* canonical field elements.                                               *)
(***************************************************************************)
RECURSIVE p2_pow(_, _)
p2_pow(a, n) == IF n = 0 THEN 1 ELSE p2_mul(a, p2_pow(a, n - 1))

\* F::inverse: None for zero
p2_inverse(m) == IF m % P2_MODULUS = 0 THEN <<>> ELSE <<p2_pow(m, P2_MODULUS - 2)>>

\* has_duplicates comparing neighbours only
has_duplicates_adjacent(v) ==
    \E i \in 1..Len(v) : i + 1 <= Len(v) /\ v[i] = v[i + 1]

has_duplicates(v) ==
    \E i \in 1..Len(v) : \E j \in (i + 1)..Len(v) : v[i] = v[j]

RECURSIVE invertible_loop(_, _, _, _)
\* the for loop of invertible_j_plus_diag from entry i on: << >> when an
\* entry has no inverse, else <<prod, sum_inv>>
invertible_loop(mu, i, prod, sum_inv) ==
    IF i > Len(mu) THEN <<prod, sum_inv>>
    ELSE LET inv == p2_inverse(mu[i])
         IN  IF inv = <<>> THEN <<>>
             ELSE invertible_loop(mu, i + 1, p2_mul(prod, mu[i]),
                                  p2_add(sum_inv, inv[1]))

invertible_j_plus_diag(mu) ==
    LET l == invertible_loop(mu, 1, 1, 0)
    IN  IF l = <<>> THEN FALSE
        ELSE p2_mul(l[1], p2_add(1, l[2])) # 0

\* a - b in the field
p2_sub(a, b) == (a + P2_MODULUS - b) % P2_MODULUS

\* the match on t of gen_mu_internal_from_grain
small_t_ok(mu, t) ==
    IF t = 2 THEN p2_sub(p2_mul(mu[1], mu[2]), 1) # 0
    ELSE IF t = 3
    THEN IF \/ p2_mul(mu[1], mu[2]) = 1
            \/ p2_mul(mu[1], mu[3]) = 1
            \/ p2_mul(mu[2], mu[3]) = 1
         THEN FALSE
         ELSE p2_add(p2_sub(p2_sub(p2_sub(p2_mul(p2_mul(mu[1], mu[2]), mu[3]),
                                          mu[1]), mu[2]), mu[3]), 2) # 0
    ELSE TRUE

\* One iteration of the loop of gen_mu_internal_from_grain on the draw
\* drawn: returned tells whether the loop returned, mu what it returned.
gen_mu_iteration(drawn, t) ==
    LET mu == SelectSeq(drawn, LAMBDA x : x # 0)
    IN  IF Len(mu) # t THEN [returned |-> FALSE, mu |-> <<>>]
        ELSE IF has_duplicates(mu) THEN [returned |-> FALSE, mu |-> <<>>]
        ELSE IF ~invertible_j_plus_diag(mu) THEN [returned |-> FALSE, mu |-> <<>>]
        ELSE IF ~small_t_ok(mu, t) THEN [returned |-> FALSE, mu |-> <<>>]
        ELSE [returned |-> TRUE, mu |-> mu]

(***************************************************************************)
(* SpecMu: the loop of gen_mu_internal_from_grain, one iteration per       *)
(* action.  arg is the last draw, out the diagonal returned.               *)
(***************************************************************************)
MU_WIDTHS == {2, 3, 4}
MU_MEDIUM == {0, 1, 2, 3, 5, 6, 10}
MU_SMALL == {0, 1, 2, 3, 5}
MaxDraws == 2

\* every vector of the field for the width 2, those over MU_MEDIUM for the
\* width 3 and over MU_SMALL for the width 4
MU_DRAWS(t) ==
    IF t = 2 THEN [1..t -> 0..(P2_MODULUS - 1)]
    ELSE IF t = 3 THEN [1..t -> MU_MEDIUM]
    ELSE [1..t -> MU_SMALL]

MuInit ==
    /\ h = <<>> /\ g = <<>> /\ u = <<>> /\ prev = <<>>
    /\ op = "none" /\ arg = <<>> /\ out = <<>> /\ outG = <<>>
    /\ dom_at = <<>> /\ progA = <<>> /\ progB = <<>>
    /\ \E t \in MU_WIDTHS : pc = [at |-> "loop", t |-> t, draws |-> 0]

MuIterate ==
    /\ pc.at = "loop" /\ pc.draws < MaxDraws
    /\ \E drawn \in MU_DRAWS(pc.t) :
          LET it == gen_mu_iteration(drawn, pc.t)
          IN  /\ arg' = <<drawn>>
              /\ out' = IF it.returned THEN <<it.mu>> ELSE <<>>
              /\ pc' = [pc EXCEPT !.at = IF it.returned THEN "returned" ELSE "loop",
                                  !.draws = pc.draws + 1]
    /\ op' = "gen_mu_internal_from_grain"
    /\ UNCHANGED <<h, g, u, prev, outG, dom_at, progA, progB>>

MuNext == MuIterate

SpecMu == MuInit /\ [][MuNext]_vars

\* J + Diag(mu) over the integers, and its determinant by expansion along
\* the first row
j_plus_diag(mu) ==
    [i \in 1..Len(mu) |-> [j \in 1..Len(mu) |-> IF i = j THEN 1 + mu[i] ELSE 1]]

minor(m, col) ==
    [i \in 1..(Len(m) - 1) |->
        [j \in 1..(Len(m) - 1) |-> m[i + 1][IF j < col THEN j ELSE j + 1]]]

RECURSIVE det(_)
RECURSIVE det_row(_, _)
det_row(m, j) ==
    IF j = 0 THEN 0
    ELSE det_row(m, j - 1)
             + (IF j % 2 = 1 THEN 1 ELSE -1) * m[1][j] * det(minor(m, j))
det(m) == IF Len(m) = 1 THEN m[1][1] ELSE det_row(m, Len(m))

singular(m) == det(m) % P2_MODULUS = 0

\* C28: a diagonal mu returned by the derivation loop has width entries,
\* all non-zero and pairwise different, makes J + Diag(mu) invertible, and
\* for the widths 2 and 3 satisfies the extra conditions; for a draw with no
\* zero entry the determinant-lemma value is non-zero exactly when the
\* determinant of J + Diag(mu) is.
C28_MuDerivation ==
    /\ pc.at = "returned" =>
          LET mu == out[1]
          IN  /\ mu = arg[1]
              /\ Len(mu) = pc.t
              /\ \A i \in 1..Len(mu) : mu[i] # 0
              /\ \A i \in 1..Len(mu) : \A j \in 1..Len(mu) :
                    i # j => mu[i] # mu[j]
              /\ ~singular(j_plus_diag(mu))
              /\ pc.t = 2 => (mu[1] * mu[2]) % P2_MODULUS # 1
              /\ pc.t = 3 =>
                    /\ \A i \in 1..3 : \A j \in 1..3 :
                          i # j => (mu[i] * mu[j]) % P2_MODULUS # 1
                    /\ (mu[1] * mu[2] * mu[3] + 3 * P2_MODULUS
                            - mu[1] - mu[2] - mu[3] + 2) % P2_MODULUS # 0
    /\ (arg # <<>> /\ \A i \in 1..pc.t : arg[1][i] # 0) =>
          (invertible_j_plus_diag(arg[1]) <=> ~singular(j_plus_diag(arg[1])))

\* a diagonal of width 3 was returned after a draw was rejected
C28_Witness ==
    /\ pc.at = "returned" /\ pc.t = 3 /\ pc.draws = 2
    /\ Len(out[1]) = 3

\* a draw of pairwise different non-zero entries was rejected because
\* J + Diag(mu) is singular
MuRejectedAsSingular ==
    /\ pc.at = "loop" /\ arg # <<>>
    /\ \A i \in 1..pc.t : arg[1][i] # 0
    /\ ~has_duplicates(arg[1])
    /\ singular(j_plus_diag(arg[1]))

(***************************************************************************)
(* SpecBuffer: a PackingBuffer driven through its public functions         *)
(* push_bytes, extract_field_elements and flush_remaining.  The loop of    *)
(* extract_field_elements is taken one iteration at a time, for at most    *)
(* one iteration more than it had bytes.  h is the buffer, prev the buffer *)
(* before the last call, out the elements the call returned, u the chunk   *)
(* (padded_bytes) the last flush_remaining converted, if any.              *)
(***************************************************************************)
BUFFER_CONFIGS ==
    {PackingConfig_default,
     PackingConfig("ByteEfficient", <<0>>, "LengthPrefix"),
     PackingConfig("ByteEfficient", <<1>>, "LengthPrefix"),
     PackingConfig("ByteEfficient", <<2>>, "Zero"),
     PackingConfig("ByteEfficient", <<3>>, "LengthPrefix"),
     PackingConfig("ByteEfficient", <<3>>, "Zero"),
     PackingConfig("CircuitFriendly", <<>>, "LengthPrefix")}

BUFFER_LONG == [i \in 1..31 |-> 255]

BUFFER_PUSHES == {<<7>>, <<1, 2>>, <<0, 9, 0>>, BUFFER_LONG}

MaxBufferOps == 3

BufferInit ==
    /\ \E config \in BUFFER_CONFIGS : h = PackingBuffer_new(config)
    /\ prev = h
    /\ g = <<>> /\ u = <<>>
    /\ op = "new" /\ arg = <<>> /\ out = <<>> /\ outG = <<>>
    /\ dom_at = <<>> /\ progA = <<>> /\ progB = <<>>
    /\ pc = [at |-> "idle", n |-> 0, len0 |-> 0, iters |-> 0, elems |-> <<>>]

BufferPush ==
    /\ pc.at = "idle" /\ pc.n < MaxBufferOps
    /\ \E bytes \in BUFFER_PUSHES :
          /\ h' = push_bytes(h, bytes)
          /\ arg' = <<bytes>>
    /\ prev' = h
    /\ op' = "push_bytes"
    /\ out' = <<>>
    /\ pc' = [pc EXCEPT !.n = @ + 1]
    /\ UNCHANGED <<g, u, outG, dom_at, progA, progB>>

\* extract_field_elements up to the head of its loop
BufferExtractBegin ==
    /\ pc.at = "idle" /\ pc.n < MaxBufferOps
    /\ prev' = h
    /\ op' = "extract_field_elements"
    /\ arg' = <<>>
    /\ out' = <<>>
    /\ pc' = [at |-> "loop", n |-> pc.n + 1, len0 |-> Len(h.bytes),
              iters |-> 0, elems |-> <<>>]
    /\ UNCHANGED <<h, g, u, outG, dom_at, progA, progB>>

BufferExtractIterate ==
    /\ pc.at = "loop"
    /\ extract_continues(h)
    /\ pc.iters <= pc.len0
    /\ \E r \in {extract_iteration(h, pc.elems)} :
          /\ h' = r.buffer
          /\ pc' = [pc EXCEPT !.iters = @ + 1, !.elems = r.field_elements]
    /\ UNCHANGED <<g, u, prev, op, arg, out, outG, dom_at, progA, progB>>

BufferExtractReturn ==
    /\ pc.at = "loop"
    /\ ~extract_continues(h)
    /\ out' = pc.elems
    /\ pc' = [pc EXCEPT !.at = "idle"]
    /\ UNCHANGED <<h, g, u, prev, op, arg, outG, dom_at, progA, progB>>

BufferFlush ==
    /\ pc.at = "idle" /\ pc.n < MaxBufferOps
    /\ \E fl \in {flush_remaining(h)} :
          /\ h' = fl.buffer
          /\ out' = fl.field_elements
    /\ u' = IF h.bytes # <<>> /\ h.config.mode = "ByteEfficient"
            THEN <<padded_bytes(h)>> ELSE <<>>
    /\ prev' = h
    /\ op' = "flush_remaining"
    /\ arg' = <<>>
    /\ pc' = [pc EXCEPT !.n = @ + 1]
    /\ UNCHANGED <<g, outG, dom_at, progA, progB>>

BufferNext ==
    \/ BufferPush
    \/ BufferExtractBegin
    \/ BufferExtractIterate
    \/ BufferExtractReturn
    \/ BufferFlush

SpecBuffer == BufferInit /\ [][BufferNext]_vars

\* extract_field_elements has returned
BufferExtracted == op = "extract_field_elements" /\ pc.at = "idle"

\* taken step by step, the loop returns what extract_field_elements does
BufferStepwiseAgrees ==
    BufferExtracted =>
        /\ h = extract_field_elements(prev).buffer
        /\ out = extract_field_elements(prev).field_elements

\* C31: in byte-efficient mode extract_field_elements, when it returns, has
\* removed from the front of the buffer floor(len / max_bytes_per_field)
\* chunks of max_bytes_per_field bytes in order, has emitted the element of
\* each chunk, and has left the last len mod max_bytes_per_field bytes in
\* their order.
C31_ExtractDrainsWholeChunks ==
    (BufferExtracted /\ h.config.mode = "ByteEfficient") =>
        LET m == h.max_bytes_per_field
            len == Len(prev.bytes)
        IN  /\ m # 0
            /\ LET k == len \div m
               IN  /\ Len(out) = k
                   /\ \A i \in 1..k :
                         out[i] = from_le_bytes_mod_order(
                                      SubSeq(prev.bytes, (i - 1) * m + 1, i * m))
                   /\ Len(h.bytes) = len % m
                   /\ h.bytes = SubSeq(prev.bytes, k * m + 1, len)

\* an extraction emitted two chunks and left a remainder
C31_Witness ==
    /\ BufferExtracted /\ h.config.mode = "ByteEfficient"
    /\ Len(out) = 2 /\ out[1] # out[2]
    /\ h.bytes # <<>>

CircuitFriendlyExtracted ==
    /\ h.config.mode = "CircuitFriendly" /\ BufferExtracted
    /\ Len(out) >= 2 /\ out[1] # out[2]

\* the chunk C33 describes for the bytes of buffer: the length byte under
\* length-prefix padding, the bytes, zeros up to max_bytes_per_field
flushed_as_described(buffer, chunk) ==
    LET body == (IF buffer.config.padding = "LengthPrefix"
                 THEN <<Len(buffer.bytes)>> ELSE <<>>) \o buffer.bytes
    IN  /\ Len(body) <= buffer.max_bytes_per_field
        /\ Len(chunk) = buffer.max_bytes_per_field
        /\ chunk = body \o ZEROS(buffer.max_bytes_per_field - Len(body))

\* C33: flush_remaining in byte-efficient mode on a non-empty buffer emits
\* one element, built from a chunk of exactly max_bytes_per_field bytes:
\* the number of remaining bytes (length-prefix padding only), the remaining
\* bytes, then zeros; it leaves the buffer empty; on an empty buffer it
\* emits nothing.
C33_FlushPadsOneChunk ==
    (op = "flush_remaining" /\ h.config.mode = "ByteEfficient") =>
        IF prev.bytes = <<>>
        THEN out = <<>> /\ h = prev
        ELSE /\ Len(out) = 1
             /\ h.bytes = <<>>
             /\ u # <<>>
             /\ out[1] = from_le_bytes_mod_order(u[1])
             /\ flushed_as_described(prev, u[1])

\* the same for a buffer whose bytes and length byte fit one chunk
FlushPadsWhatFitsOneChunk ==
    (/\ op = "flush_remaining" /\ h.config.mode = "ByteEfficient"
     /\ Len(prev.bytes) + (IF prev.config.padding = "LengthPrefix" THEN 1 ELSE 0)
            <= prev.max_bytes_per_field) =>
        IF prev.bytes = <<>>
        THEN out = <<>> /\ h = prev
        ELSE /\ Len(out) = 1
             /\ h.bytes = <<>>
             /\ u # <<>>
             /\ out[1] = from_le_bytes_mod_order(u[1])
             /\ flushed_as_described(prev, u[1])

\* a flush under the default configuration converted a chunk longer than
\* max_bytes_per_field, and of a value the field reduces
FlushConvertedLongChunk ==
    /\ op = "flush_remaining" /\ prev.config = PackingConfig_default
    /\ u # <<>> /\ Len(u[1]) > prev.max_bytes_per_field
    /\ out[1] # nat_norm(u[1])

\* a flush under zero padding dropped buffered bytes
FlushDroppedBytes ==
    /\ op = "flush_remaining" /\ prev.config.padding = "Zero"
    /\ prev.config.mode = "ByteEfficient"
    /\ u # <<>> /\ Len(u[1]) < Len(prev.bytes)

\* under the default configuration no extracted chunk is reduced: the
\* element is the chunk read as a little-endian number
DefaultChunksNotReduced ==
    (BufferExtracted /\ prev.config = PackingConfig_default) =>
        \A i \in 1..Len(out) :
            out[i] = nat_norm(SubSeq(prev.bytes, (i - 1) * 30 + 1, i * 30))

(***************************************************************************)
(* SpecChunk: PackingBuffer::new::<F> and the conversion of one whole      *)
(* chunk for prime fields F of several sizes, the field elements being the *)
(* integers below the modulus.  pc.modulus is the modulus of F, h the      *)
(* buffer's max_bytes_per_field, arg the chunk, out its element.           *)
(***************************************************************************)
\* primes of 2, 3, 4, 8, 8, 9, 9, 16, 17, 24 and 25 bits
CHUNK_MODULI == {3, 7, 11, 131, 251, 257, 509, 65521, 65537, 16777213, 16777259}

CHUNK_BYTES == {0, 1, 2, 4, 128, 255}

RECURSIVE bit_size(_)
\* F::MODULUS_BIT_SIZE: the number of bits of the modulus
bit_size(n) == IF n = 0 THEN 0 ELSE 1 + bit_size(n \div 2)

RECURSIVE le_value(_)
\* a byte sequence read as a little-endian number
le_value(bytes) ==
    IF bytes = <<>> THEN 0 ELSE bytes[1] + 256 * le_value(Tail(bytes))

\* F::from_le_bytes_mod_order for the field of the given modulus
from_le_bytes_mod_order_in(bytes, modulus) == le_value(bytes) % modulus

ChunkInit ==
    /\ \E modulus \in CHUNK_MODULI :
          pc = [at |-> "start", modulus |-> modulus]
    /\ h = <<>> /\ g = <<>> /\ u = <<>> /\ prev = <<>>
    /\ op = "none" /\ arg = <<>> /\ out = <<>> /\ outG = <<>>
    /\ dom_at = <<>> /\ progA = <<>> /\ progB = <<>>

\* PackingBuffer::new::<F>(PackingConfig::default())
ChunkNew ==
    /\ pc.at = "start"
    /\ h' = <<calculate_max_bytes_of(bit_size(pc.modulus))>>
    /\ pc' = [pc EXCEPT !.at = "built"]
    /\ op' = "new"
    /\ UNCHANGED <<g, u, prev, arg, out, outG, dom_at, progA, progB>>

\* the conversion of one whole chunk in extract_field_elements
ChunkConvert ==
    /\ pc.at = "built"
    /\ \E chunk \in [1..h[1] -> CHUNK_BYTES] :
          /\ arg' = <<chunk>>
          /\ out' = <<from_le_bytes_mod_order_in(chunk, pc.modulus)>>
    /\ op' = "convert"
    /\ UNCHANGED <<h, g, u, prev, outG, dom_at, progA, progB, pc>>

ChunkNext == ChunkNew \/ ChunkConvert

SpecChunk == ChunkInit /\ [][ChunkNext]_vars

\* the chunk converted is below the modulus, its element is its value, and
\* no other chunk of the same length has the same element
chunk_exact ==
    /\ le_value(arg[1]) < pc.modulus
    /\ out[1] = le_value(arg[1])
    /\ \A other \in [1..h[1] -> 0..255] :
          from_le_bytes_mod_order_in(other, pc.modulus) = out[1] => other = arg[1]

\* C34: for the computed max_bytes_per_field, every chunk of that many bytes
\* read as a little-endian number is below the field modulus, for every
\* field size, so that its conversion reduces nothing and is injective.
C34_ChunkBelowModulus ==
    op = "convert" => chunk_exact

\* the same for the fields of 9 bits and more
ChunkBelowModulusFromNineBits ==
    (op = "convert" /\ bit_size(pc.modulus) >= 9) => chunk_exact

\* a chunk of a field of 8 bits or fewer was reduced
ChunkReduced ==
    /\ op = "convert" /\ bit_size(pc.modulus) <= 8
    /\ out[1] # le_value(arg[1])

(***************************************************************************)
(* Further properties of Spec: the pending domain tweak, the lane cursor   *)
(* and the packing buffer of the hasher.                                   *)
(***************************************************************************)
\* the lanes of the pending tweak that absorbing k elements into the hasher
\* before consumes: none until lane 0 comes up while the tweak waits for a
\* block start, then one per element until none is left
lanes_consumed(before, k) ==
    LET skipped == IF before.pending_domain_at_block_start
                   THEN (before.rate - before.lane_cursor) % before.rate
                   ELSE 0
    IN  min2(max2(k - skipped, 0), before.domain_lanes_remaining)

TweakExhausted ==
    /\ op = "update"
    /\ prev.pending_domain # <<>> /\ h.pending_domain = <<>>
    /\ h.domain_lanes_remaining = 0

\* an update absorbed an element while the tweak waited for a block start
TweakWaited ==
    /\ op = "update" /\ h.count > prev.count
    /\ prev.pending_domain_at_block_start /\ h.pending_domain_at_block_start

\* C39: when absorb_domain is called while the tweak of an earlier call is
\* pending or partly consumed, the new vector takes its place with a full
\* counter and the block-start flag; of the elements absorbed after the
\* call, those of the first block from lane 0 carry the new tweak, lane by
\* lane, and every other one carries none, the earlier tweak included (the
\* hasher given no domain shows the elements without tweaks).
C39_SecondDomainReplacesFirst ==
    /\ (op = "absorb_domain" /\ prev.pending_domain # <<>>) =>
          /\ h.pending_domain = <<dom_at[Len(dom_at)].tweak>>
          /\ h.domain_lanes_remaining = h.rate
          /\ h.pending_domain_at_block_start
          /\ h.sponge = prev.sponge
    /\ Len(dom_at) >= 2 =>
          LET at == dom_at[Len(dom_at)].at
              tweak == dom_at[Len(dom_at)].tweak
          IN  \A k \in (at + 1)..Len(h.sponge.absorbed) :
                 IF C8_in_block(k, at, h.rate)
                 THEN h.sponge.absorbed[k]
                          = f_add(u.sponge.absorbed[k], tweak[((k - 1) % h.rate) + 1])
                 ELSE h.sponge.absorbed[k] = u.sponge.absorbed[k]

\* A was installed at a block start and had one lane consumed when B was
\* installed; the next element, in A's block, carries no tweak and the one
\* after it, on lane 0, carries B's
C39_Witness ==
    /\ Len(dom_at) = 2
    /\ dom_at[1].at % h.rate = 0
    /\ dom_at[2].at = dom_at[1].at + 1
    /\ dom_at[1].tweak # dom_at[2].tweak
    /\ h.rate = 2
    /\ Len(h.sponge.absorbed) >= dom_at[2].at + 2
    /\ h.sponge.absorbed[dom_at[2].at + 1] = u.sponge.absorbed[dom_at[2].at + 1]
    /\ h.sponge.absorbed[dom_at[2].at + 2]
           = f_add(u.sponge.absorbed[dom_at[2].at + 2], dom_at[2].tweak[1])
    /\ h.sponge.absorbed[dom_at[2].at + 2] # u.sponge.absorbed[dom_at[2].at + 2]

\* the elements a flush of the buffer yields: one for a non-empty
\* byte-efficient buffer, none for an empty buffer
flush_yield(buffer) ==
    IF buffer.config.mode = "ByteEfficient" /\ buffer.bytes # <<>> THEN 1 ELSE 0

RECURSIVE absorb_internal(_, _, _, _)
absorb_internal(self, rate_start_index, elements, fuel) ==
    IF fuel = 0 THEN [panicked |-> FALSE, returned |-> FALSE, sponge |-> self]
    ELSE Bind(absorb_internal_iteration(self, rate_start_index, elements),
              LAMBDA r :
                  IF r.panicked \/ r.returned
                  THEN [panicked |-> r.panicked, returned |-> r.returned,
                        sponge |-> r.sponge]
                  ELSE absorb_internal(r.sponge, r.rate_start_index, r.remaining,
                                       fuel - 1))

\* absorb starting every call at lane 0 of the rate, as the Squeezing arm does
Poseidon2Sponge_absorb_from_lane_zero(self, elems) ==
    IF elems = <<>> THEN [panicked |-> FALSE, returned |-> TRUE, sponge |-> self]
    ELSE absorb_internal(self, 0, elems, Len(elems) + 1)

Poseidon2Sponge_absorb(self, elems) ==
    IF elems = <<>> THEN [panicked |-> FALSE, returned |-> TRUE, sponge |-> self]
    ELSE Bind(absorb_entry(self), LAMBDA e :
             IF e.panicked
             THEN [panicked |-> TRUE, returned |-> FALSE, sponge |-> e.sponge]
             ELSE absorb_internal(e.sponge, e.index, elems, Len(elems) + 1))

RECURSIVE squeeze_internal(_, _, _, _, _)
squeeze_internal(self, rate_start_index, remaining, output, fuel) ==
    IF fuel = 0
    THEN [panicked |-> FALSE, returned |-> FALSE, sponge |-> self, output |-> output]
    ELSE Bind(squeeze_internal_iteration(self, rate_start_index, remaining),
              LAMBDA r :
                  IF r.panicked \/ r.returned
                  THEN [panicked |-> r.panicked, returned |-> r.returned,
                        sponge |-> r.sponge, output |-> output \o r.output]
                  ELSE squeeze_internal(r.sponge, r.rate_start_index, r.remaining,
                                        output \o r.output, fuel - 1))

Poseidon2Sponge_squeeze_native_field_elements(self, num_elements) ==
    Bind(squeeze_entry(self), LAMBDA e :
        IF e.panicked
        THEN [panicked |-> TRUE, returned |-> FALSE, sponge |-> e.sponge,
              output |-> <<>>]
        ELSE squeeze_internal(e.sponge, e.index, num_elements, <<>>,
                              num_elements + 1))

(***************************************************************************)
(* SpecSplit: two Poseidon2 sponges of one parameter set given the same    *)
(* first absorb; then h absorbs xs and ys in two calls, g absorbs xs       *)
(* followed by ys in one, and both are squeezed.  h and g hold the outcome *)
(* of the last call on each sponge, a call on a sponge that panicked or    *)
(* did not return is not made.  progA is xs.                               *)
(***************************************************************************)
SPLIT_SHAPES == {<<0, 2>>, <<1, 1>>, <<2, 1>>, <<3, 1>>, <<4, 1>>}
\* <<full_rounds, partial_rounds, d>>
SPLIT_ROUNDS == {<<0, 0, 5>>, <<2, 1, 5>>, <<2, 1, 2>>}
SPLIT_FIRST == {<<>>, <<1>>, <<1, 2>>, <<1, 2, 3>>}
SPLIT_ELEMENTS == {<<>>, <<4>>, <<5, 6>>, <<7, 8, 9>>}
SPLIT_SQUEEZED == {1, 2, 4}

\* the call on the sponge of an outcome, if the calls before it returned
after(outcome, Call(_)) ==
    IF outcome.panicked \/ ~outcome.returned THEN outcome ELSE Call(outcome.sponge)

SplitInit ==
    /\ \E shape \in SPLIT_SHAPES, rounds \in SPLIT_ROUNDS :
          LET t == shape[1] + shape[2]
              cfg == PoseidonConfig_new(rounds[1], rounds[2], rounds[3],
                         p2_matrix(t, t), p2_matrix(rounds[1] + rounds[2], t),
                         p2_mu(t), shape[1], shape[2])
          IN  h = [panicked |-> FALSE, returned |-> TRUE,
                   sponge |-> Poseidon2Sponge_new(cfg[1])]
    /\ g = h
    /\ u = <<>> /\ prev = <<>>
    /\ op = "new" /\ arg = <<>> /\ out = <<>> /\ outG = <<>>
    /\ dom_at = <<>> /\ progA = <<>> /\ progB = <<>>
    /\ pc = [at |-> "new"]

SplitAbsorbSame ==
    /\ pc.at = "new"
    /\ \E elems \in SPLIT_FIRST :
          \E r \in {after(h, LAMBDA s : Poseidon2Sponge_absorb(s, elems))} :
              /\ h' = r
              /\ g' = r
              /\ arg' = <<elems>>
    /\ pc' = [at |-> "same"]
    /\ op' = "absorb"
    /\ UNCHANGED <<u, prev, out, outG, dom_at, progA, progB>>

SplitAbsorbFirst ==
    /\ pc.at = "same"
    /\ \E xs \in SPLIT_ELEMENTS :
          /\ h' = after(h, LAMBDA s : Poseidon2Sponge_absorb(s, xs))
          /\ arg' = <<xs>>
          /\ progA' = xs
    /\ prev' = h
    /\ pc' = [at |-> "first"]
    /\ op' = "absorb"
    /\ UNCHANGED <<g, u, out, outG, dom_at, progB>>

SplitAbsorbSecond ==
    /\ pc.at = "first"
    /\ \E ys \in SPLIT_ELEMENTS :
          /\ h' = after(h, LAMBDA s : Poseidon2Sponge_absorb(s, ys))
          /\ g' = after(g, LAMBDA s : Poseidon2Sponge_absorb(s, progA \o ys))
          /\ arg' = <<ys>>
    /\ pc' = [at |-> "absorbed"]
    /\ op' = "absorb"
    /\ UNCHANGED <<u, prev, out, outG, dom_at, progA, progB>>

SplitSqueeze ==
    /\ pc.at = "absorbed"
    /\ \E n \in SPLIT_SQUEEZED :
          \E a \in {after(h, LAMBDA s :
                       Poseidon2Sponge_squeeze_native_field_elements(s, n))},
             b \in {after(g, LAMBDA s :
                       Poseidon2Sponge_squeeze_native_field_elements(s, n))} :
              /\ h' = [panicked |-> a.panicked, returned |-> a.returned,
                       sponge |-> a.sponge]
              /\ g' = [panicked |-> b.panicked, returned |-> b.returned,
                       sponge |-> b.sponge]
              /\ out' = IF a.panicked \/ ~a.returned THEN <<>> ELSE a.output
              /\ outG' = IF b.panicked \/ ~b.returned THEN <<>> ELSE b.output
              /\ arg' = <<n>>
    /\ pc' = [at |-> "squeezed"]
    /\ op' = "squeeze_native_field_elements"
    /\ UNCHANGED <<u, prev, dom_at, progA, progB>>

SplitNext ==
    \/ SplitAbsorbSame
    \/ SplitAbsorbFirst
    \/ SplitAbsorbSecond
    \/ SplitSqueeze

SpecSplit == SplitInit /\ [][SplitNext]_vars

\* C38: from any sponge in Absorbing mode, absorb(xs) then absorb(ys) ends
\* as one absorb of xs followed by ys does: both panic, both fail to
\* return, or both return with the same state vector, and then a squeeze
\* returns the same elements from both.
C38_AbsorbCallBoundaries ==
    pc.at \in {"absorbed", "squeezed"} =>
        /\ h.panicked = g.panicked
        /\ h.returned = g.returned
        /\ h.returned => h.sponge.state = g.sponge.state
        /\ pc.at = "squeezed" => out = outG

\* the two sponges are then in the same mode as well
SplitModesAgree ==
    (pc.at \in {"absorbed", "squeezed"} /\ h.returned) =>
        h.sponge.mode = g.sponge.mode

\* xs filled the block the sponge had begun, ys went to the next one, and
\* the squeeze returned elements
C38_Witness ==
    /\ pc.at = "squeezed"
    /\ h.returned /\ g.returned
    /\ progA # <<>>
    /\ prev.returned /\ prev.sponge.mode.index # 0
    /\ prev.sponge.mode.index + Len(progA) = prev.sponge.parameters.rate
    /\ Len(out) = 4
    /\ \E i \in 1..4 : out[i] # 0

\* a run in which the absorbs of both sponges panicked
SplitBothPanicked == pc.at = "absorbed" /\ h.panicked /\ g.panicked

(***************************************************************************)
(* SpecLanes: the hasher of Spec with the mode of its sponge.  h is the    *)
(* hasher; u is a sponge of h's rate and capacity 1 that is given one      *)
(* absorb call for every sponge.absorb call of h, with as many elements,   *)
(* and is squeezed where h's sponge is; g is the same for the clone that   *)
(* digest absorbs into and squeezes.  The mode transitions are those of    *)
(* Poseidon2Sponge::absorb and squeeze_native_field_elements.              *)
(***************************************************************************)
lanes_sponge(rate) ==
    Poseidon2Sponge_new(
        PoseidonConfig_new(2, 1, 5, p2_matrix(rate + 1, rate + 1),
                           p2_matrix(3, rate + 1), p2_mu(rate + 1), rate, 1)[1])

\* the sponge after an absorb call of the elements that took before to after
lanes_absorb(outcome, before, after_) ==
    after(outcome, LAMBDA s :
        Poseidon2Sponge_absorb(s,
            [i \in 1..(Len(after_.absorbed) - Len(before.absorbed)) |-> 1]))

lanes_squeeze(outcome) ==
    after(outcome, LAMBDA s :
        Bind(Poseidon2Sponge_squeeze_native_field_elements(s, 1), LAMBDA r :
            [panicked |-> r.panicked, returned |-> r.returned, sponge |-> r.sponge]))

LanesInit ==
    /\ scalar_fits_base_field
    /\ \E rate \in PARAM_RATES, config \in CONFIGS :
          \/ h = new_with_config(rate, config)
          \/ h = new_with_config_and_domain(rate, config, DOMAIN_A)
    /\ u = [panicked |-> FALSE, returned |-> TRUE, sponge |-> lanes_sponge(h.rate)]
    /\ g = u
    /\ prev = h
    /\ op = "new"
    /\ arg = <<>> /\ out = <<>> /\ outG = <<>>
    /\ dom_at = <<>> /\ progA = <<>> /\ progB = <<>>
    /\ pc = [n |-> 0, alive |-> TRUE, resets |-> 0, digests |-> 0]

LanesUpdate ==
    /\ CanRun
    /\ \E input \in INPUTS :
          \E h1 \in {update(h, input)} :
              /\ h' = h1
              /\ u' = lanes_absorb(u, h.sponge, h1.sponge)
              /\ arg' = <<input>>
    /\ Ran("update")
    /\ UNCHANGED <<g, out, outG, dom_at>>

LanesAbsorbDomain ==
    /\ CanRun
    /\ \E domain \in DOMAINS :
          \E h1 \in {absorb_domain(h, domain)} :
              /\ h' = h1
              /\ u' = lanes_absorb(u, h.sponge, h1.sponge)
    /\ arg' = <<>>
    /\ Ran("absorb_domain")
    /\ UNCHANGED <<g, out, outG, dom_at>>

LanesDigest ==
    /\ CanRun
    /\ \E d \in {digest(h)}, fl \in {digest_flushing(h)} :
          /\ h' = d.self
          /\ out' = d.result
          /\ u' = lanes_absorb(u, h.sponge, d.self.sponge)
          /\ g' = lanes_squeeze(lanes_absorb(u, h.sponge, fl.self.sponge))
    /\ arg' = <<>>
    /\ Ran("digest")
    /\ UNCHANGED <<outG, dom_at>>

LanesFinalize ==
    /\ CanRun
    /\ \E f \in {finalize(h)} :
          /\ h' = f.self
          /\ out' = f.result
          /\ u' = lanes_squeeze(lanes_absorb(u, h.sponge, f.self.sponge))
    /\ arg' = <<>>
    /\ Ran("finalize")
    /\ UNCHANGED <<g, outG, dom_at>>

LanesReset ==
    /\ CanRun
    /\ h' = reset(h)
    /\ u' = [panicked |-> FALSE, returned |-> TRUE, sponge |-> lanes_sponge(h.rate)]
    /\ arg' = <<>>
    /\ Ran("reset")
    /\ UNCHANGED <<g, out, outG, dom_at>>

LanesNext ==
    \/ LanesUpdate
    \/ LanesAbsorbDomain
    \/ LanesDigest
    \/ LanesFinalize
    \/ LanesReset

SpecLanes == LanesInit /\ [][LanesNext]_vars

LanesCountIsAbsorbed == element_count(h) = Len(h.sponge.absorbed)

\* an element absorbed at lane 0 meets a sponge at the start of a block or
\* with its block full, which absorb permutes before adding the element
LanesLaneZeroStartsBlock ==
    (pc.alive /\ h.lane_cursor = 0) =>
        u.sponge.mode.index \in {0, h.rate}

LanesBlockFull ==
    /\ pc.alive /\ h.lane_cursor = 0 /\ element_count(h) > 0
    /\ u.sponge.mode.index = h.rate

\* digest left its clone squeezing and the live sponge absorbing
LanesDigestSqueezedClone ==
    /\ pc.alive /\ op = "digest" /\ element_count(h) > 0
    /\ g.sponge.mode.kind = "Squeezing"
    /\ u.sponge.mode.kind = "Absorbing"

\* finalize left the sponge of the consumed hasher squeezing
LanesFinalizeSqueezed ==
    /\ ~pc.alive /\ op = "finalize"
    /\ u.sponge.mode.kind = "Squeezing"

====
